---- MODULE Spec2Model ----
(***************************************************************************)
(* Model of msalmeida1/real-time-pipeline:                                 *)
(*   - producer/tracker.py: SpotifyTracker.check_status, the session       *)
(*     state machine that turns playback snapshots into track events;      *)
(*   - processor/hot_path_function.py: lambda_handler and                  *)
(*     update_user_profile, the incremental statistics engine;             *)
(*   - recommender/services.py: get_recommendation_queue, the ranker, with *)
(*     load_item_index, rank_items and update_recommendation_queue.        *)
(***************************************************************************)
EXTENDS Integers, Sequences, FiniteSets, TLC

\* ------------------------------------------------------------------------
\* Bounds of the model
\* ------------------------------------------------------------------------
\* time.time() is a float: the clock is counted in ticks of 1/TicksPerSec s
TicksPerSec == 2
\* the wall clock (in whole seconds) when the tracker process starts
EpochSec == 1
\* the tracker is followed for this many seconds after EpochSec
MaxSeconds == 31

\* ------------------------------------------------------------------------
\* Python values
\* ------------------------------------------------------------------------
\* Python's None, where the code compares it with strings
None == "None"
\* truthiness of an id: None and the empty string are falsy
Truthy(x) == x \notin {None, ""}

\* ========================================================================
\* producer/tracker.py
\* ========================================================================
\* SpotifyTracker.min_listen_time, in seconds
min_listen_time == 30

\* the 'item' objects the Spotify API can report: two catalogue tracks, a
\* local file (its id is null) and an item whose id is the empty string
Items ==
  { [id |-> "t1", name |-> "n1"],
    [id |-> "t2", name |-> "n2"],
    [id |-> None, name |-> "local"],
    [id |-> "",   name |-> "blank"] }

\* what sp.current_user_playing_track() hands to check_status: nothing at
\* all, a snapshot without an item, or a snapshot with an item
Snapshots ==
  { [present |-> FALSE, item |-> <<>>], [present |-> TRUE, item |-> <<>>] }
  \cup { [present |-> TRUE, item |-> <<i>>] : i \in Items }

\* not spotify_data or not spotify_data.get('item')
NoTrack(data) == ~data.present \/ data.item = <<>>

\* seconds between two polls, in ticks: the same instant, one tick, one tick
\* short of min_listen_time, and exactly min_listen_time
Elapsed == {0, 1, min_listen_time * TicksPerSec - 1, min_listen_time * TicksPerSec}

MaxClock == (EpochSec + MaxSeconds) * TicksPerSec

\* int(x) of a non-negative float given in ticks
IntSec(ticks) == ticks \div TicksPerSec

VARIABLES
  \* SpotifyTracker fields
  current_track_id, current_track_name, start_time,
  \* time.time(), in ticks
  clock,
  \* the argument and the return value of the last check_status call
  spotify_data, event,
  \* whether a snapshot with an item was ever fed to check_status
  seen_before

trackerVars == <<current_track_id, current_track_name, start_time,
                 spotify_data, event, seen_before>>

VARIABLES
  \* the DynamoDB profile table: user_id -> profile, for the users that have one
  store,
  \* the environment of the hot-path function and of the recommender:
  \* RECOMMENDER_GENRE_VOCAB, RECOMMENDER_TEMPO_MIN, RECOMMENDER_TEMPO_MAX
  \* and ITEM_INDEX_TTL_SECONDS
  env,
  \* lambda_handler: the records of the batch not yet looked at, and how the
  \* invocation stands ("idle", "running", "ok": returned 200, "raised")
  pending, response,
  \* the last record lambda_handler looked at and what became of it
  call,
  \* per user, the events update_user_profile has persisted, oldest first
  applied,
  \* the number of records looked at so far
  processed

profileVars == <<store, env, pending, response, call, applied, processed>>

VARIABLES
  \* _item_index_cache of recommender/services.py: loaded_at (in ticks) and
  \* payload (<<>> for None, else <<payload>>)
  item_index_cache,
  \* the last get_recommendation_queue call: its arguments, how its
  \* get_item ended, the profile it fetched, the path it took, what the
  \* catalog source held when load_item_index went to it and the payload
  \* load_item_index gave, the user vector it took, what the call did and
  \* what it returned
  queue_call

rankerVars == <<item_index_cache, queue_call>>

VARIABLES
  \* the update_user_profile invocations that run side by side, per worker:
  \* where it stands ("idle"; "read": get_item has returned, put_item is to
  \* come; "done"), its event, the time and the profile it read, and the
  \* number of updates the store had taken when it read
  inflight,
  \* the get_recommendation_queue call that has read the profile and ranked
  \* the catalog, and has not yet written the queue: where it stands
  \* ("idle", "read"), its arguments and what it computed from what it read
  ranking

raceVars == <<inflight, ranking>>

\* Classify with the threshold itself counted as a skip
Classify_Inclusive(duration) ==
  IF duration <= min_listen_time * TicksPerSec THEN "SKIPPED" ELSE "COMPLETED"
\* status = 'SKIPPED' if duration < self.min_listen_time else 'COMPLETED'
\* (duration is a float, here in ticks)
Classify(duration) ==
  IF duration < min_listen_time * TicksPerSec THEN "SKIPPED" ELSE "COMPLETED"

\* processing_path = 'hot' if status in ['SKIPPED', 'COMPLETED'] else 'cold'
ProcessingPath(status) ==
  IF status \in {"SKIPPED", "COMPLETED"} THEN "hot" ELSE "cold"

\* TrackChangeEvent measuring the time listened between the whole-second
\* timestamps of the two calls
TrackChangeEvent_WholeStamps(prev_id, prev_name, track_id, track_name, duration, now) ==
  [ event_type |-> "track_change",
    track_id |-> prev_id,
    track_name |-> prev_name,
    status |-> Classify(duration),
    processing_path |-> ProcessingPath(Classify(duration)),
    duration_listened |-> IntSec(now) - IntSec(now - duration),
    timestamp |-> IntSec(now) ]
\* TrackChangeEvent naming the track of the snapshot
TrackChangeEvent_NewTrack(prev_id, prev_name, track_id, track_name, duration, now) ==
  [ event_type |-> "track_change",
    track_id |-> track_id,
    track_name |-> track_name,
    status |-> Classify(duration),
    processing_path |-> ProcessingPath(Classify(duration)),
    duration_listened |-> IntSec(duration),
    timestamp |-> IntSec(now) ]
\* the event dict of check_status, built from the tracked (previous) track
TrackChangeEvent(prev_id, prev_name, track_id, track_name, duration, now) ==
  [ event_type |-> "track_change",
    track_id |-> prev_id,
    track_name |-> prev_name,
    status |-> Classify(duration),
    processing_path |-> ProcessingPath(Classify(duration)),
    duration_listened |-> IntSec(duration),
    timestamp |-> IntSec(now) ]

\* if self.current_track_id and track_id != self.current_track_id
ClosesOut(cur, track_id) == Truthy(cur) /\ track_id # cur

\* Adopts resetting the tracked state on every snapshot with a track
Adopts_Always(cur, track_id) == TRUE
\* if track_id != self.current_track_id
Adopts(cur, track_id) == track_id # cur

\* ========================================================================
\* processor/hot_path_function.py: values
\* ========================================================================
\* floats are kept as integers counted in 1/Scale, rounded to the nearest
Scale == 1000

\* x / n rounded to the nearest multiple of 1/Scale (x counted in 1/Scale)
RoundDiv(x, n) == (2 * x + n) \div (2 * n)

\* a / b of two numbers counted in 1/Scale, counted in 1/Scale
FDiv(a, b) == RoundDiv(a * Scale, b)

EMBEDDING_VERSION == "v1"
DEFAULT_TEMPO_MIN == 50
DEFAULT_TEMPO_MAX == 200

\* strings the code takes apart are sequences of characters; the only
\* whitespace in them is the blank
\* str.lstrip() and str.rstrip()
RECURSIVE LStrip(_)
LStrip(s) == IF s # <<>> /\ Head(s) = " " THEN LStrip(Tail(s)) ELSE s

RECURSIVE RStrip(_)
RStrip(s) ==
  IF s # <<>> /\ s[Len(s)] = " " THEN RStrip(SubSeq(s, 1, Len(s) - 1)) ELSE s

\* str.strip(): drop the blanks at both ends
Strip(s) == RStrip(LStrip(s))

\* str.replace(" ", "_")
ReplaceSpaces(s) == [i \in DOMAIN s |-> IF s[i] = " " THEN "_" ELSE s[i]]

\* normalize_genre_label: label.strip().replace(" ", "_")
normalize_genre_label(label) == ReplaceSpaces(Strip(label))

\* str.split(","): the pieces between the commas, empty pieces included
RECURSIVE SplitFrom(_, _, _)
SplitFrom(s, i, piece) ==
  IF i > Len(s) THEN <<piece>>
  ELSE IF s[i] = "," THEN <<piece>> \o SplitFrom(s, i + 1, <<>>)
  ELSE SplitFrom(s, i + 1, Append(piece, s[i]))

Split(s) == SplitFrom(s, 1, <<>>)

\* [... for value in raw_vocab.split(",") if value.strip()]
RECURSIVE NonBlank(_)
NonBlank(pieces) ==
  IF pieces = <<>> THEN <<>>
  ELSE IF Strip(Head(pieces)) # <<>>
       THEN <<Head(pieces)>> \o NonBlank(Tail(pieces))
       ELSE NonBlank(Tail(pieces))

\* parse_genre_vocab on the value of RECOMMENDER_GENRE_VOCAB
parse_genre_vocab(raw_vocab) ==
  IF raw_vocab = <<>> THEN <<>>
  ELSE LET kept == NonBlank(Split(raw_vocab))
       IN [i \in DOMAIN kept |-> normalize_genre_label(kept[i])]

\* get_tempo_bounds handing out the bounds as they are set
get_tempo_bounds_AsSet(env_min, env_max) ==
  << IF env_min = <<>> THEN DEFAULT_TEMPO_MIN * Scale ELSE env_min[1],
     IF env_max = <<>> THEN DEFAULT_TEMPO_MAX * Scale ELSE env_max[1] >>
\* get_tempo_bounds on RECOMMENDER_TEMPO_MIN / _MAX (<<>>: not set, else
\* <<value>>), as <<min, max>> counted in 1/Scale
get_tempo_bounds(env_min, env_max) ==
  LET min_value == IF env_min = <<>> THEN DEFAULT_TEMPO_MIN * Scale ELSE env_min[1]
      max_value == IF env_max = <<>> THEN DEFAULT_TEMPO_MAX * Scale ELSE env_max[1]
  IN IF max_value <= min_value
     THEN <<DEFAULT_TEMPO_MIN * Scale, DEFAULT_TEMPO_MAX * Scale>>
     ELSE <<min_value, max_value>>

\* normalize_min_max: min-max scaling clamped to [0, 1]
normalize_min_max(value, min_value, max_value) ==
  IF max_value <= min_value THEN 0
  ELSE LET normalized == FDiv(value - min_value, max_value - min_value)
       IN IF normalized < 0 THEN 0
          ELSE IF normalized > Scale THEN Scale ELSE normalized

\* sum of the values of a dict
RECURSIVE SumValues(_, _)
SumValues(d, keys) ==
  IF keys = {} THEN 0
  ELSE LET k == CHOOSE x \in keys : TRUE
       IN d[k] + SumValues(d, keys \ {k})

\* dict.get(key, 0)
GetCount(d, key) == IF key \in DOMAIN d THEN d[key] ELSE 0

\* build_user_embedding with the genre counts themselves as entries
build_user_embedding_Counts(profile, genre_vocab, tempo_min, tempo_max) ==
  LET audio_profile == profile.audio_profile
      audio_vector ==
        << audio_profile.avg_danceability,
           audio_profile.avg_energy,
           audio_profile.avg_valence,
           audio_profile.avg_acousticness,
           normalize_min_max(audio_profile.avg_tempo, tempo_min, tempo_max) >>
      genre_affinity == profile.genre_affinity
      genre_vector ==
        [i \in DOMAIN genre_vocab |->
           GetCount(genre_affinity, genre_vocab[i]) * Scale]
      feature_order ==
        << <<"danceability">>, <<"energy">>, <<"valence">>, <<"acousticness">>,
           <<"tempo_normalized">> >>
        \o [i \in DOMAIN genre_vocab |-> <<"genre_">> \o genre_vocab[i]]
      metadata ==
        [ embedding_version |-> EMBEDDING_VERSION,
          feature_order |-> feature_order,
          genre_vocab |-> genre_vocab,
          tempo_min |-> tempo_min,
          tempo_max |-> tempo_max ]
  IN << audio_vector \o genre_vector, metadata >>
\* build_user_embedding: <<embedding, metadata>>
build_user_embedding(profile, genre_vocab, tempo_min, tempo_max) ==
  LET audio_profile == profile.audio_profile
      audio_vector ==
        << audio_profile.avg_danceability,
           audio_profile.avg_energy,
           audio_profile.avg_valence,
           audio_profile.avg_acousticness,
           normalize_min_max(audio_profile.avg_tempo, tempo_min, tempo_max) >>
      genre_affinity == profile.genre_affinity
      total_genre_count == SumValues(genre_affinity, DOMAIN genre_affinity) * Scale
      genre_vector ==
        [i \in DOMAIN genre_vocab |->
           IF total_genre_count > 0
           THEN FDiv(GetCount(genre_affinity, genre_vocab[i]) * Scale, total_genre_count)
           ELSE 0]
      feature_order ==
        << <<"danceability">>, <<"energy">>, <<"valence">>, <<"acousticness">>,
           <<"tempo_normalized">> >>
        \o [i \in DOMAIN genre_vocab |-> <<"genre_">> \o genre_vocab[i]]
      metadata ==
        [ embedding_version |-> EMBEDDING_VERSION,
          feature_order |-> feature_order,
          genre_vocab |-> genre_vocab,
          tempo_min |-> tempo_min,
          tempo_max |-> tempo_max ]
  IN << audio_vector \o genre_vector, metadata >>

\* remove_track_from_queue dropping the first entry equal to track_id only
RECURSIVE remove_track_from_queue_First(_, _)
remove_track_from_queue_First(queue, track_id) ==
  IF queue = <<>> THEN <<>>
  ELSE IF Head(queue) # track_id
       THEN <<Head(queue)>> \o remove_track_from_queue_First(Tail(queue), track_id)
       ELSE Tail(queue)
\* remove_track_from_queue: the queue without the entries equal to track_id
RECURSIVE remove_track_from_queue(_, _)
remove_track_from_queue(queue, track_id) ==
  IF queue = <<>> THEN <<>>
  ELSE IF Head(queue) # track_id
       THEN <<Head(queue)>> \o remove_track_from_queue(Tail(queue), track_id)
       ELSE remove_track_from_queue(Tail(queue), track_id)

\* calc_avg weighting the old average with the incremented sample count
calc_avg_Incremented(old_avg, samples, new_val) ==
  IF samples + 1 > 0
  THEN RoundDiv(old_avg * (samples + 1) + new_val, samples + 2) ELSE 0
\* calc_avg of update_audio_profile
calc_avg(old_avg, samples, new_val) ==
  IF samples + 1 > 0 THEN RoundDiv(old_avg * samples + new_val, samples + 1) ELSE 0

\* the sample count update_audio_profile stores
NextSamples_Same(samples) == samples
NextSamples(samples) == samples + 1

\* update_audio_profile: the audio profile with the new track folded in
update_audio_profile(current_profile, new_features) ==
  LET stats == current_profile.audio_profile
      samples == stats.samples
  IN [ avg_danceability |-> calc_avg(stats.avg_danceability, samples, new_features.danceability),
       avg_energy |-> calc_avg(stats.avg_energy, samples, new_features.energy),
       avg_valence |-> calc_avg(stats.avg_valence, samples, new_features.valence),
       avg_acousticness |-> calc_avg(stats.avg_acousticness, samples, new_features.acousticness),
       avg_tempo |-> calc_avg(stats.avg_tempo, samples, new_features.tempo),
       samples |-> NextSamples(samples) ]

\* the key update_genre_affinity counts a genre under
GenreKey(genre) == ReplaceSpaces(genre)

\* update_genre_affinity: one more for the key of each genre, in order
RECURSIVE update_genre_affinity(_, _)
update_genre_affinity(current_genres, new_genres) ==
  IF new_genres = <<>> THEN current_genres
  ELSE LET safe_genre == GenreKey(Head(new_genres))
           bumped == [k \in DOMAIN current_genres \cup {safe_genre} |->
                        IF k = safe_genre THEN GetCount(current_genres, safe_genre) + 1
                        ELSE current_genres[k]]
       IN update_genre_affinity(bumped, Tail(new_genres))

\* the positions of current_artists that hold artist_id
ArtistPositions(current_artists, artist_id) ==
  {i \in DOMAIN current_artists : current_artists[i].artist_id = artist_id}

Max(S) == CHOOSE x \in S : \A y \in S : y <= x

\* update_artist_affinity: artist_map is built from the list's entries, a new
\* artist is put in artist_map only, a known artist's entry (the last one
\* with that id) is updated in place, and current_artists is returned
update_artist_affinity(current_artists, new_artists, now) ==
  LET at == ArtistPositions(current_artists, new_artists.id)
  IN IF at = {} THEN current_artists
     ELSE [current_artists EXCEPT
             ![Max(at)] = [@ EXCEPT !.affinity = @ + 1, !.last_played_ts = now]]

\* the most recent entries update_user_profile keeps in recent_history
HistoryLimit == 20

\* history.insert(0, new_history_item); history[:20]
PushHistory_Append(history, item) == SubSeq(Append(history, item), 1, IF Len(history) + 1 < HistoryLimit THEN Len(history) + 1 ELSE HistoryLimit)
\* PushHistory suppressing an event equal to the newest entry (a redelivery)
PushHistory_Dedup(history, item) ==
  IF /\ history # <<>>
     /\ history[1].track_id = item.track_id
     /\ history[1].status = item.status
  THEN history
  ELSE SubSeq(<<item>> \o history, 1,
              IF Len(history) + 1 < HistoryLimit THEN Len(history) + 1 ELSE HistoryLimit)
PushHistory(history, item) ==
  LET grown == <<item>> \o history
  IN SubSeq(grown, 1, IF Len(grown) < HistoryLimit THEN Len(grown) ELSE HistoryLimit)

\* ------------------------------------------------------------------------
\* processor/hot_path_function.py: the profile store and the handlers
\* ------------------------------------------------------------------------
\* bounds: records looked at in one run, records in one batch, and the
\* seconds the hot path is followed after EpochSec
MaxEvents == 2
MaxBatch == 2
MaxProfileSeconds == 1

Users == {"u1"}
TrackIds == {"t1", "t2"}
\* the statuses a record can carry: the two of a TrackEvent, and another one
Statuses == {"COMPLETED", "SKIPPED", "PAUSED"}

\* what the Spotify API holds for a track: audio features (counted in
\* 1/Scale), the genres of its first artist, and that artist
TrackCatalog(track_id) ==
  IF track_id = "t1"
  THEN [ features |-> [danceability |-> Scale \div 2, energy |-> Scale,
                       valence |-> Scale \div 5, acousticness |-> 0,
                       tempo |-> 120 * Scale],
         genres |-> << <<"h", " ", "h">>, <<"r", " ">> >>,
         artist_info |-> [id |-> "a1", name |-> "A1"] ]
  ELSE [ features |-> [danceability |-> Scale, energy |-> 0,
                       valence |-> Scale \div 2, acousticness |-> Scale \div 4,
                       tempo |-> 90 * Scale],
         genres |-> << <<"r">> >>,
         artist_info |-> [id |-> "a2", name |-> "A2"] ]

\* how a track_metadata call can end: it returns the metadata; Spotify
\* returns no audio features; a Spotify or HTTP error, or a malformed answer
\* (caught, None); get_spotify_client raises (no secret id, Secrets Manager
\* error, bad secret), which track_metadata does not catch
MetaOutcomes == {"ok", "no_features", "api_error", "secret_error"}

\* how a get_item / put_item call can end
StoreOutcomes == {"ok", "error"}

IOs == [get : StoreOutcomes, meta : MetaOutcomes, put : StoreOutcomes]

AllOk == [get |-> "ok", meta |-> "ok", put |-> "ok"]

\* track_metadata: <<metadata>>, or <<>> for None; not used for secret_error
track_metadata(track_id, outcome) ==
  IF outcome = "ok" THEN <<TrackCatalog(track_id)>> ELSE <<>>

\* the Kinesis records of a batch: not decodable, or a JSON object with
\* these fields (None: the field is missing)
Records ==
  { [decodable |-> FALSE, processing_path |-> None, user_id |-> None,
     track_id |-> None, status |-> None] }
  \cup [decodable : {TRUE}, processing_path : {"hot"}, user_id : Users,
        track_id : TrackIds, status : Statuses]
  \cup { [decodable |-> TRUE, processing_path |-> "cold", user_id |-> "u1",
          track_id |-> "t1", status |-> "COMPLETED"],
         [decodable |-> TRUE, processing_path |-> "hot", user_id |-> None,
          track_id |-> "t1", status |-> "SKIPPED"],
         [decodable |-> TRUE, processing_path |-> "hot", user_id |-> "u1",
          track_id |-> None, status |-> "COMPLETED"],
         [decodable |-> TRUE, processing_path |-> "hot", user_id |-> "u1",
          track_id |-> "t1", status |-> None] }

\* the environments the functions are deployed with (<<>>: not set)
Envs ==
  { [vocab |-> <<>>, tempo_min |-> <<>>, tempo_max |-> <<>>, index_ttl |-> <<>>],
    [vocab |-> <<"r", ",", " ", "h", " ", "h">>,
     tempo_min |-> <<60 * Scale>>, tempo_max |-> <<180 * Scale>>,
     index_ttl |-> <<>>] }

EmptyDict == [k \in {} |-> 0]

\* the profile update_user_profile starts from when the user has none
DefaultProfile(user_id, now) ==
  [ user_id |-> user_id,
    created_at |-> now,
    updated_at |-> now,
    last_event_ts |-> now,
    audio_profile |-> [avg_danceability |-> 0, avg_energy |-> 0, avg_valence |-> 0,
                       avg_acousticness |-> 0, avg_tempo |-> 0, samples |-> 0],
    genre_affinity |-> EmptyDict,
    artist_affinity |-> <<>>,
    recent_history |-> <<>>,
    total_tracks_played |-> 0,
    total_completions |-> 0,
    total_skips |-> 0,
    recommendation_queue |-> <<>>,
    queue_updated_at |-> 0,
    queue_embedding_version |-> "",
    queue_embedding_ts |-> 0 ]

\* resp.get("Item", {...}) of update_user_profile
LoadProfile(table, user_id, now) ==
  IF user_id \in DOMAIN table THEN table[user_id] ELSE DefaultProfile(user_id, now)

\* BumpSkips counting the COMPLETED events
BumpSkips_Completed(total_skips, status) ==
  IF status = "COMPLETED" THEN total_skips + 1 ELSE total_skips
\* total_skips after an event of this status
BumpSkips(total_skips, status) ==
  IF status = "SKIPPED" THEN total_skips + 1 ELSE total_skips

\* the embedding attributes built with the default tempo bounds, whatever
\* the environment sets
EmbeddingOf_DefaultBounds(stats, now, environ) ==
  LET built == build_user_embedding(stats, parse_genre_vocab(environ.vocab),
                                    DEFAULT_TEMPO_MIN * Scale,
                                    DEFAULT_TEMPO_MAX * Scale)
  IN [ user_embedding |-> built[1],
       embedding_meta |-> built[2],
       embedding_version |-> EMBEDDING_VERSION,
       embedding_updated_at |-> now ]
\* the embedding attributes update_user_profile sets on the profile it has
\* folded the event into
EmbeddingOf(stats, now, environ) ==
  LET tempo == get_tempo_bounds(environ.tempo_min, environ.tempo_max)
      built == build_user_embedding(stats, parse_genre_vocab(environ.vocab),
                                    tempo[1], tempo[2])
  IN [ user_embedding |-> built[1],
       embedding_meta |-> built[2],
       embedding_version |-> EMBEDDING_VERSION,
       embedding_updated_at |-> now ]

\* the item update_user_profile puts: the loaded profile with the event
\* folded in (meta is <<>> when track_metadata returned None or was not
\* called) and the embedding rebuilt
UpdatedProfile(profile, track_id, status, meta, now, environ) ==
  LET completed == status = "COMPLETED"
      folded == completed /\ meta # <<>>
      stats ==
        [ user_id |-> profile.user_id,
          created_at |-> profile.created_at,
          updated_at |-> now,
          last_event_ts |-> now,
          total_tracks_played |-> profile.total_tracks_played + 1,
          total_completions |->
            IF completed THEN profile.total_completions + 1
            ELSE profile.total_completions,
          audio_profile |->
            IF folded THEN update_audio_profile(profile, meta[1].features)
            ELSE profile.audio_profile,
          genre_affinity |->
            IF folded THEN update_genre_affinity(profile.genre_affinity, meta[1].genres)
            ELSE profile.genre_affinity,
          artist_affinity |->
            IF folded
            THEN update_artist_affinity(profile.artist_affinity, meta[1].artist_info, now)
            ELSE profile.artist_affinity,
          total_skips |-> BumpSkips(profile.total_skips, status),
          recent_history |->
            PushHistory(profile.recent_history,
                        [track_id |-> track_id, status |-> status, ts |-> now]),
          recommendation_queue |->
            remove_track_from_queue(profile.recommendation_queue, track_id),
          queue_updated_at |-> profile.queue_updated_at,
          queue_embedding_version |-> profile.queue_embedding_version,
          queue_embedding_ts |-> profile.queue_embedding_ts ]
  IN stats @@ EmbeddingOf(stats, now, environ)

\* put_item on the condition that no update was stored since the read
PutItem_IfUnchanged(table, profile) ==
  IF /\ profile.user_id \in DOMAIN table
     /\ table[profile.user_id].total_tracks_played + 1 # profile.total_tracks_played
  THEN table
  ELSE [u \in DOMAIN table \cup {profile.user_id} |->
          IF u = profile.user_id THEN profile ELSE table[u]]
\* table.put_item(Item=profile)
PutItem(table, profile) ==
  [u \in DOMAIN table \cup {profile.user_id} |->
     IF u = profile.user_id THEN profile ELSE table[u]]

\* UpdateOutcome going on with a new profile when get_item fails
UpdateOutcome_IgnoreReadError(status, io) ==
  IF status = "COMPLETED" /\ io.meta = "secret_error" THEN "raised"
  ELSE IF io.put = "error" THEN "put_failed"
  ELSE "persisted"
\* how update_user_profile ends for a record and the outcomes of its calls
UpdateOutcome(status, io) ==
  IF io.get = "error" THEN "get_failed"
  ELSE IF status = "COMPLETED" /\ io.meta = "secret_error" THEN "raised"
  ELSE IF io.put = "error" THEN "put_failed"
  ELSE "persisted"

\* what lambda_handler does with a record: drop it, or call update_user_profile
RecordOutcome(rec, io) ==
  IF ~rec.decodable THEN "undecodable"
  ELSE IF rec.processing_path # "hot" THEN "not_hot"
  ELSE IF ~Truthy(rec.user_id) \/ ~Truthy(rec.track_id) \/ ~Truthy(rec.status)
       THEN "missing_fields"
  ELSE UpdateOutcome(rec.status, io)

\* int(time.time())
Now == IntSec(clock)

\* the outcomes that matter for a record: none when lambda_handler drops it,
\* the profile store's when update_user_profile is called, and Spotify's
\* too when the status is COMPLETED
IOsOf(rec) ==
  IF RecordOutcome(rec, AllOk) \in {"undecodable", "not_hot", "missing_fields"}
  THEN {AllOk}
  ELSE IF rec.status = "COMPLETED" THEN IOs
  ELSE {io \in IOs : io.meta = "ok"}

IdleCall ==
  [user_id |-> None, track_id |-> None, status |-> None, meta |-> "not_fetched",
   get |-> "none", put |-> "none", outcome |-> "idle"]

NoApplied == [u \in Users |-> <<>>]

\* ========================================================================
\* recommender/services.py: values
\* ========================================================================
DEFAULT_INDEX_TTL_SECONDS == 300

\* profile.get(key, default)
Get(profile, key, default) ==
  IF key \in DOMAIN profile THEN profile[key] ELSE default

\* seq[:n] for n >= 0
Take(seq, n) == SubSeq(seq, 1, IF Len(seq) < n THEN Len(seq) ELSE n)

\* a * b of two numbers counted in 1/Scale, counted in 1/Scale
FMul(a, b) == RoundDiv(a * b, Scale)

\* the largest r in lo..hi with r * r <= x
RECURSIVE SqrtBetween(_, _, _)
SqrtBetween(x, lo, hi) ==
  IF lo = hi THEN lo
  ELSE LET mid == (lo + hi + 1) \div 2
       IN IF mid * mid <= x THEN SqrtBetween(x, mid, hi)
          ELSE SqrtBetween(x, lo, mid - 1)

\* math.sqrt of a number counted in 1/Scale, rounded to the nearest 1/Scale
Sqrt(x) ==
  LET r == SqrtBetween(x * Scale, 0, 8 * Scale)
  IN IF x * Scale - r * r > r THEN r + 1 ELSE r

\* sum(...) over a list
RECURSIVE SumSeq(_)
SumSeq(values) == IF values = <<>> THEN 0 ELSE Head(values) + SumSeq(Tail(values))

\* cosine_similarity: 0 for vectors of different lengths or of norm zero
cosine_similarity(vector_a, vector_b) ==
  IF Len(vector_a) # Len(vector_b) THEN 0
  ELSE LET dot_product == SumSeq([i \in DOMAIN vector_a |-> FMul(vector_a[i], vector_b[i])])
           norm_a == Sqrt(SumSeq([i \in DOMAIN vector_a |-> FMul(vector_a[i], vector_a[i])]))
           norm_b == Sqrt(SumSeq([i \in DOMAIN vector_b |-> FMul(vector_b[i], vector_b[i])]))
       IN IF norm_a = 0 \/ norm_b = 0 THEN 0
          ELSE FDiv(dot_product, FMul(norm_a, norm_b))

\* get_recent_track_ids: the non-empty track ids of recent_history
get_recent_track_ids(profile) ==
  LET recent_history == Get(profile, "recent_history", <<>>)
  IN {recent_history[i].track_id : i \in {j \in DOMAIN recent_history :
                                             Truthy(recent_history[j].track_id)}}

\* normalize_queue: the track ids of a stored queue; the queues this code
\* stores are lists of strings, which are all kept, in order
normalize_queue(queue) == [i \in DOMAIN queue |-> queue[i]]

\* whether rank_items scores an item, excluded ids included
Scored_Excluded(item, user_vector, exclude_ids) ==
  /\ Truthy(item.item_id)
  /\ Len(item.vector) = Len(user_vector)
\* whether rank_items scores an item: it has an id that is not excluded and
\* a vector as long as the user's
Scored(item, user_vector, exclude_ids) ==
  /\ Truthy(item.item_id)
  /\ item.item_id \notin exclude_ids
  /\ Len(item.vector) = Len(user_vector)

\* scored_items of rank_items before the sort: <<score, item_id>>, in the
\* order of the catalog
RECURSIVE ScoredItems(_, _, _)
ScoredItems(user_vector, items, exclude_ids) ==
  IF items = <<>> THEN <<>>
  ELSE LET item == Head(items)
           rest == ScoredItems(user_vector, Tail(items), exclude_ids)
       IN IF Scored(item, user_vector, exclude_ids)
          THEN << <<cosine_similarity(user_vector, item.vector), item.item_id>> >> \o rest
          ELSE rest

\* InsertByScore putting the entry ahead of the entries of equal score
InsertByScore_AheadOfTies(sorted, entry) ==
  LET n == Cardinality({i \in DOMAIN sorted : sorted[i][1] > entry[1]})
  IN SubSeq(sorted, 1, n) \o <<entry>> \o SubSeq(sorted, n + 1, Len(sorted))
\* one step of the stable descending sort: the entry goes behind every entry
\* whose score is at least its own
InsertByScore(sorted, entry) ==
  LET n == Cardinality({i \in DOMAIN sorted : sorted[i][1] >= entry[1]})
  IN SubSeq(sorted, 1, n) \o <<entry>> \o SubSeq(sorted, n + 1, Len(sorted))

\* scored_items.sort(key=lambda entry: entry[0], reverse=True)
RECURSIVE SortByScore(_)
SortByScore(scored) ==
  IF scored = <<>> THEN <<>>
  ELSE InsertByScore(SortByScore(SubSeq(scored, 1, Len(scored) - 1)),
                     scored[Len(scored)])

\* rank_items: the ids of the limit best-scored items
rank_items(user_vector, items, exclude_ids, limit) ==
  LET top == Take(SortByScore(ScoredItems(user_vector, items, exclude_ids)), limit)
  IN [i \in DOMAIN top |-> top[i][2]]

\* ------------------------------------------------------------------------
\* recommender/services.py: the catalog index
\* ------------------------------------------------------------------------
\* the items normalize_item_index_payload keeps of a list of raw items: a
\* raw item is a JSON value (is_dict: it is an object) with the keys
\* item_id, track_id (None: missing), vector (<<>>: not a list, else
\* <<list>>) and artist_id
RECURSIVE NormalizeItems(_)
NormalizeItems(items) ==
  IF items = <<>> THEN <<>>
  ELSE LET item == Head(items)
           item_id == IF Truthy(item.item_id) THEN item.item_id ELSE item.track_id
       IN IF ~item.is_dict \/ ~Truthy(item_id) \/ item.vector = <<>>
          THEN NormalizeItems(Tail(items))
          ELSE << [item_id |-> item_id, vector |-> item.vector[1],
                   artist_id |-> item.artist_id] >> \o NormalizeItems(Tail(items))

\* normalize_item_index_payload: <<>> for None, else <<payload>>; a raw
\* payload is an object ("dict"), a list ("list") or another JSON value, its
\* items are <<>> (not a list) or <<list>>
normalize_item_index_payload(payload) ==
  IF payload.shape \notin {"dict", "list"} \/ payload.items = <<>> THEN <<>>
  ELSE << [ items |-> NormalizeItems(payload.items[1]),
            feature_order |-> IF payload.shape = "dict" THEN payload.feature_order
                              ELSE <<>> ] >>

\* safe_float(ITEM_INDEX_TTL_SECONDS, DEFAULT_INDEX_TTL_SECONDS), in 1/Scale s
IndexTtl(environ) ==
  IF environ.index_ttl = <<>> THEN DEFAULT_INDEX_TTL_SECONDS * Scale
  ELSE environ.index_ttl[1]

\* load_item_index handing out the expired payload when the fetch fails
load_item_index_StaleOnFailure(cache, source, now, environ) ==
  LET cached_payload == cache.payload
      normalized_payload ==
        IF source.status = "ok" THEN normalize_item_index_payload(source.payload)
        ELSE <<>>
  IN IF /\ cached_payload # <<>>
        /\ (now - cache.loaded_at) * Scale < IndexTtl(environ) * TicksPerSec
     THEN [payload |-> cached_payload, cache |-> cache, fetched |-> FALSE]
     ELSE IF normalized_payload = <<>>
     THEN [payload |-> cached_payload, cache |-> cache,
           fetched |-> source.status # "unconfigured"]
     ELSE [payload |-> normalized_payload,
           cache |-> [loaded_at |-> now, payload |-> normalized_payload,
                      source |-> "catalog"],
           fetched |-> TRUE]
\* load_item_index memoizing a failure: the payload it had is forgotten
load_item_index_MemoizeFailure(cache, source, now, environ) ==
  LET cached_payload == cache.payload
      normalized_payload ==
        IF source.status = "ok" THEN normalize_item_index_payload(source.payload)
        ELSE <<>>
  IN IF /\ cached_payload # <<>>
        /\ (now - cache.loaded_at) * Scale < IndexTtl(environ) * TicksPerSec
     THEN [payload |-> cached_payload, cache |-> cache, fetched |-> FALSE]
     ELSE [payload |-> normalized_payload,
           cache |-> [loaded_at |-> now, payload |-> normalized_payload,
                      source |-> "catalog"],
           fetched |-> source.status # "unconfigured"]
\* load_item_index going to the source although the cached payload is young
load_item_index_Refetch(cache, source, now, environ) ==
  LET normalized_payload ==
        IF source.status = "ok" THEN normalize_item_index_payload(source.payload)
        ELSE <<>>
  IN IF normalized_payload = <<>>
     THEN [payload |-> <<>>, cache |-> cache,
           fetched |-> source.status # "unconfigured"]
     ELSE [payload |-> normalized_payload,
           cache |-> [loaded_at |-> now, payload |-> normalized_payload,
                      source |-> "catalog"],
           fetched |-> TRUE]
\* load_item_index at time now (in ticks): the payload it returns (<<>> for
\* None), the cache it leaves and whether it went to the source; source is
\* what the configured source yields ("unconfigured", "error", or "ok" and
\* a raw payload)
load_item_index(cache, source, now, environ) ==
  LET cached_payload == cache.payload
      normalized_payload ==
        IF source.status = "ok" THEN normalize_item_index_payload(source.payload)
        ELSE <<>>
  IN IF /\ cached_payload # <<>>
        /\ (now - cache.loaded_at) * Scale < IndexTtl(environ) * TicksPerSec
     THEN [payload |-> cached_payload, cache |-> cache, fetched |-> FALSE]
     ELSE IF normalized_payload = <<>>
     THEN [payload |-> <<>>, cache |-> cache,
           fetched |-> source.status # "unconfigured"]
     ELSE [payload |-> normalized_payload,
           cache |-> [loaded_at |-> now, payload |-> normalized_payload,
                      source |-> "catalog"],
           fetched |-> TRUE]

\* ------------------------------------------------------------------------
\* recommender/services.py: the recommendation queue
\* ------------------------------------------------------------------------
\* fetch_user_profile handing out the item although get_item failed
fetch_user_profile_IgnoreError(table, user_id, get) ==
  IF user_id \in DOMAIN table THEN <<table[user_id]>> ELSE <<>>
\* fetch_user_profile: <<>> for None (the read fails, or there is no item)
fetch_user_profile(table, user_id, get) ==
  IF get = "ok" /\ user_id \in DOMAIN table THEN <<table[user_id]>> ELSE <<>>

\* update_recommendation_queue that stamps the profile's updated_at as well
update_recommendation_queue_Touch(table, user_id, queue, embedding_version, embedding_updated_at, now) ==
  LET item == IF user_id \in DOMAIN table THEN table[user_id]
              ELSE [user_id |-> user_id]
      updated == [ recommendation_queue |-> queue,
                   queue_updated_at |-> now,
                   queue_embedding_version |-> embedding_version,
                   queue_embedding_ts |-> embedding_updated_at,
                   updated_at |-> now + 1 ] @@ item
  IN [u \in DOMAIN table \cup {user_id} |-> IF u = user_id THEN updated ELSE table[u]]

\* update_recommendation_queue when update_item succeeds: the four queue
\* attributes of the user's item are set (update_item creates the item when
\* there is none)
update_recommendation_queue(table, user_id, queue, embedding_version, embedding_updated_at, now) ==
  LET item == IF user_id \in DOMAIN table THEN table[user_id]
              ELSE [user_id |-> user_id]
      updated == [ recommendation_queue |-> queue,
                   queue_updated_at |-> now,
                   queue_embedding_version |-> embedding_version,
                   queue_embedding_ts |-> embedding_updated_at ] @@ item
  IN [u \in DOMAIN table \cup {user_id} |-> IF u = user_id THEN updated ELSE table[u]]

\* queue_is_fresh without the length condition
queue_is_fresh_AnyLength(profile, existing_queue, queue_size) ==
  /\ Get(profile, "queue_embedding_version", "")
       = Get(profile, "embedding_version", EMBEDDING_VERSION)
  /\ Get(profile, "queue_embedding_ts", 0) >= Get(profile, "embedding_updated_at", 0)
\* queue_is_fresh of get_recommendation_queue
queue_is_fresh(profile, existing_queue, queue_size) ==
  /\ Get(profile, "queue_embedding_version", "")
       = Get(profile, "embedding_version", EMBEDDING_VERSION)
  /\ Get(profile, "queue_embedding_ts", 0) >= Get(profile, "embedding_updated_at", 0)
  /\ Len(existing_queue) >= queue_size

\* RetainedQueue dropping the queue for a differing version only
RetainedQueue_KeepOlder(profile, existing_queue) ==
  IF Get(profile, "queue_embedding_version", "")
       # Get(profile, "embedding_version", EMBEDDING_VERSION)
  THEN <<>>
  ELSE existing_queue
\* existing_queue after the staleness test: emptied when the queue's version
\* differs from the embedding's or its timestamp is older
RetainedQueue(profile, existing_queue) ==
  IF \/ Get(profile, "queue_embedding_version", "")
          # Get(profile, "embedding_version", EMBEDDING_VERSION)
     \/ Get(profile, "queue_embedding_ts", 0) < Get(profile, "embedding_updated_at", 0)
  THEN <<>>
  ELSE existing_queue

\* the user vector: the stored embedding, or one built on the fly
UserVector(profile, environ) ==
  IF "user_embedding" \in DOMAIN profile THEN profile.user_embedding
  ELSE LET tempo == get_tempo_bounds(environ.tempo_min, environ.tempo_max)
       IN build_user_embedding(profile, parse_genre_vocab(environ.vocab),
                               tempo[1], tempo[2])[1]

\* limit=max(queue_size * 2, queue_size)
CandidateLimit(queue_size) ==
  IF queue_size * 2 > queue_size THEN queue_size * 2 ELSE queue_size

\* ExtendQueue with the candidates ahead of the retained queue
ExtendQueue_CandidatesFirst(existing_queue, candidates, queue_size) ==
  Take(candidates \o existing_queue, queue_size)
\* new_queue = (existing_queue + candidates)[:queue_size]
ExtendQueue(existing_queue, candidates, queue_size) ==
  Take(existing_queue \o candidates, queue_size)

\* QueueTag tagging the queue with the time of the ranking
QueueTag_Now(profile, now) ==
  [ embedding_version |-> Get(profile, "embedding_version", EMBEDDING_VERSION),
    embedding_updated_at |-> now ]
\* the embedding version and timestamp the new queue is stored with
QueueTag(profile, now) ==
  [ embedding_version |-> Get(profile, "embedding_version", EMBEDDING_VERSION),
    embedding_updated_at |-> Get(profile, "embedding_updated_at", 0) ]

\* get_recommendation_queue up to the write: the profile it fetched (<<>>
\* for None), the path it took, the queue it retained, whether it called
\* load_item_index, whether that went to the source and the payload it
\* gave (<<>> for None), the user vector it ranks with, the candidates of
\* rank_items, the queue it returns and the cache it leaves
get_recommendation_queue(table, cache, user_id, queue_size, get, source, now, environ) ==
  LET fetched_profile == fetch_user_profile(table, user_id, get)
      profile == fetched_profile[1]
      stored_queue == normalize_queue(Get(profile, "recommendation_queue", <<>>))
      existing_queue == RetainedQueue(profile, stored_queue)
      loaded == load_item_index(cache, source, now, environ)
      items == loaded.payload[1].items
      exclude_ids == get_recent_track_ids(profile)
                       \cup {existing_queue[i] : i \in DOMAIN existing_queue}
      candidates == rank_items(UserVector(profile, environ), items, exclude_ids,
                               CandidateLimit(queue_size))
  IN IF fetched_profile = <<>>
     THEN [ profile |-> <<>>, path |-> "no_profile", existing_queue |-> <<>>,
            loaded |-> FALSE, fetched |-> FALSE, index |-> <<>>,
            user_vector |-> <<>>, candidates |-> <<>>,
            result |-> <<>>, cache |-> cache ]
     ELSE IF queue_is_fresh(profile, stored_queue, queue_size)
     THEN [ profile |-> fetched_profile, path |-> "cached",
            existing_queue |-> stored_queue,
            loaded |-> FALSE, fetched |-> FALSE, index |-> <<>>,
            user_vector |-> <<>>, candidates |-> <<>>,
            result |-> Take(stored_queue, queue_size), cache |-> cache ]
     ELSE IF loaded.payload = <<>> \/ items = <<>>
     THEN [ profile |-> fetched_profile,
            path |-> IF loaded.payload = <<>> THEN "no_index" ELSE "empty_index",
            existing_queue |-> existing_queue,
            loaded |-> TRUE, fetched |-> loaded.fetched,
            index |-> loaded.payload,
            user_vector |-> UserVector(profile, environ), candidates |-> <<>>,
            result |-> Take(existing_queue, queue_size), cache |-> loaded.cache ]
     ELSE [ profile |-> fetched_profile, path |-> "recomputed",
            existing_queue |-> existing_queue,
            loaded |-> TRUE, fetched |-> loaded.fetched,
            index |-> loaded.payload,
            user_vector |-> UserVector(profile, environ),
            candidates |-> candidates,
            result |-> ExtendQueue(existing_queue, candidates, queue_size),
            cache |-> loaded.cache ]

\* the raw catalog items of the model; the user vectors have five entries
RawItem(item_id, vector) ==
  [is_dict |-> TRUE, item_id |-> item_id, track_id |-> None,
   vector |-> <<vector>>, artist_id |-> None]

\* a catalog as an object with items and feature_order: two items of equal
\* vectors (t4, t5), a played track (t1), an item keyed by track_id (t6), a
\* vector of another length (t7), and items that cannot be used
CatalogA ==
  [ shape |-> "dict",
    feature_order |-> <<>>,
    items |-> << <<
      RawItem("t3", <<0, 0, 0, Scale, 0>>),
      [is_dict |-> TRUE, item_id |-> None, track_id |-> "t6",
       vector |-> << <<Scale, 0, 0, 0, 0>> >>, artist_id |-> "a6"],
      RawItem("t1", <<Scale \div 2, Scale, Scale \div 5, 0, Scale \div 2>>),
      [is_dict |-> FALSE, item_id |-> None, track_id |-> None,
       vector |-> <<>>, artist_id |-> None],
      RawItem("t4", <<Scale, Scale, 0, 0, 0>>),
      RawItem("t7", <<Scale, 0>>),
      [is_dict |-> TRUE, item_id |-> "t8", track_id |-> None,
       vector |-> <<>>, artist_id |-> None],
      RawItem("t5", <<Scale, Scale, 0, 0, 0>>),
      RawItem("", <<Scale, Scale, 0, 0, 0>>) >> >> ]

\* a catalog as a bare list, which lists t4 twice
CatalogB ==
  [ shape |-> "list",
    feature_order |-> <<>>,
    items |-> << << RawItem("t4", <<Scale, Scale, 0, 0, 0>>),
                    RawItem("t4", <<Scale, Scale, 0, 0, 0>>),
                    RawItem("t3", <<0, 0, 0, Scale, 0>>) >> >> ]

\* what the catalog source can yield to load_item_index
CatalogSources ==
  { [status |-> "unconfigured", payload |-> <<>>],
    [status |-> "error", payload |-> <<>>],
    [status |-> "ok", payload |-> [shape |-> "other", feature_order |-> <<>>,
                                   items |-> <<>>]],
    [status |-> "ok", payload |-> [shape |-> "dict", feature_order |-> <<>>,
                                   items |-> <<>>]],
    [status |-> "ok", payload |-> [shape |-> "list", feature_order |-> <<>>,
                                   items |-> << <<>> >>]],
    [status |-> "ok", payload |-> CatalogA],
    [status |-> "ok", payload |-> CatalogB] }

\* _item_index_cache = {"loaded_at": 0.0, "payload": None, "source": ""}
EmptyCache == [loaded_at |-> 0, payload |-> <<>>, source |-> ""]

IdleQueueCall ==
  [ user_id |-> None, queue_size |-> 0, get |-> "none", profile |-> <<>>,
    path |-> "idle",
    existing_queue |-> <<>>, loaded |-> FALSE, fetched |-> FALSE,
    source |-> <<>>, index |-> <<>>, user_vector |-> <<>>,
    candidates |-> <<>>, wrote |-> "none", result |-> <<>> ]

\* the hot-path invocations that can run side by side
Workers == {"w1", "w2"}

IdleInflight ==
  [pc |-> "idle", user_id |-> None, track_id |-> None, status |-> None,
   now |-> 0, profile |-> <<>>, base |-> 0]

NoInflight == [w \in Workers |-> IdleInflight]

IdleRanking == [pc |-> "idle", user_id |-> None, queue_size |-> 0, outcome |-> <<>>]

InitTracker ==
  /\ current_track_id = None
  /\ current_track_name = None
  /\ start_time = 0
  /\ spotify_data = [present |-> FALSE, item |-> <<>>]
  /\ event = <<>>
  /\ seen_before = FALSE

InitClock == clock = EpochSec * TicksPerSec

\* no user has a profile yet
InitProfile ==
  /\ store = [u \in {} |-> 0]
  /\ env \in Envs
  /\ pending = 0
  /\ response = "idle"
  /\ call = IdleCall
  /\ applied = NoApplied
  /\ processed = 0

\* no update_user_profile is under way
InitInflight ==
  /\ inflight = NoInflight
  /\ ranking = IdleRanking

\* the recommender has just been started
InitRanker ==
  /\ item_index_cache = EmptyCache
  /\ queue_call = IdleQueueCall

\* SpotifyTracker.check_status(data), called dt ticks after the last call
CheckStatus(data, dt) ==
  /\ clock + dt <= MaxClock
  /\ clock' = clock + dt
  /\ spotify_data' = data
  /\ IF NoTrack(data)
     THEN /\ event' = <<>>
          /\ UNCHANGED <<current_track_id, current_track_name, start_time,
                         seen_before>>
     ELSE LET now == clock'
              track == data.item[1]
              duration == now - start_time
          IN /\ seen_before' = TRUE
             /\ event' = IF ClosesOut(current_track_id, track.id)
                         THEN << TrackChangeEvent(current_track_id,
                                   current_track_name, track.id, track.name,
                                   duration, now) >>
                         ELSE <<>>
             /\ IF Adopts(current_track_id, track.id)
                THEN /\ current_track_id' = track.id
                     /\ current_track_name' = track.name
                     /\ start_time' = now
                ELSE UNCHANGED <<current_track_id, current_track_name,
                                 start_time>>
  /\ UNCHANGED <<profileVars, rankerVars, raceVars>>

\* a second passes
Tick ==
  /\ clock + TicksPerSec <= (EpochSec + MaxProfileSeconds) * TicksPerSec
  /\ clock' = clock + TicksPerSec
  /\ UNCHANGED <<trackerVars, profileVars, rankerVars, raceVars>>

\* lambda_handler is invoked with a batch of n records
Invoke(n) ==
  /\ response # "running"
  /\ processed < MaxEvents
  /\ pending' = n
  /\ response' = IF n = 0 THEN "ok" ELSE "running"
  /\ UNCHANGED <<store, env, call, applied, processed, clock, trackerVars,
                 rankerVars, raceVars>>

\* one turn of lambda_handler's loop, on record rec, update_user_profile
\* included; io: how the calls to the profile store and to Spotify end
ProcessRecord(rec, io) ==
  LET outcome == RecordOutcome(rec, io)
      calls_update == outcome \in {"get_failed", "raised", "put_failed", "persisted"}
      meta_outcome == IF calls_update /\ outcome # "get_failed" /\ rec.status = "COMPLETED"
                      THEN io.meta ELSE "not_fetched"
      meta == track_metadata(rec.track_id, meta_outcome)
      profile == LoadProfile(store, rec.user_id, Now)
      \* how get_item and put_item ended, where the call reached them
      get_outcome == IF calls_update THEN io.get ELSE "none"
      put_outcome == IF outcome \in {"put_failed", "persisted"} THEN io.put ELSE "none"
  IN /\ response = "running"
     /\ pending > 0
     /\ processed < MaxEvents
     /\ processed' = processed + 1
     /\ pending' = pending - 1
     /\ response' = IF outcome = "raised" THEN "raised"
                    ELSE IF pending = 1 THEN "ok" ELSE "running"
     /\ call' = [user_id |-> rec.user_id, track_id |-> rec.track_id,
                 status |-> rec.status, meta |-> meta_outcome,
                 get |-> get_outcome, put |-> put_outcome,
                 outcome |-> outcome]
     /\ IF outcome = "persisted"
        THEN /\ store' = PutItem(store, UpdatedProfile(profile, rec.track_id,
                                          rec.status, meta, Now, env))
             /\ applied' = [applied EXCEPT ![rec.user_id] =
                              Append(@, [track_id |-> rec.track_id,
                                         status |-> rec.status,
                                         meta |-> meta_outcome, ts |-> Now])]
        ELSE UNCHANGED <<store, applied>>
     /\ UNCHANGED <<env, clock, trackerVars, rankerVars, raceVars>>

\* get_recommendation_queue(user_id, queue_size), the write included; get:
\* how get_item ends; source: what the catalog source yields if it is read;
\* put: how update_item ends where the call reaches it
GetQueue(user_id, queue_size, get, source) ==
  \E outcome \in { get_recommendation_queue(store, item_index_cache, user_id,
                                             queue_size, get, source, clock, env) } :
  \E put \in IF outcome.path = "recomputed" THEN StoreOutcomes ELSE {"none"} :
  LET tag == QueueTag(outcome.profile[1], Now)
      from_cache == outcome.loaded /\ outcome.index # <<>> /\ ~outcome.fetched
  IN /\ item_index_cache' = outcome.cache
     /\ store' = IF put = "ok"
                 THEN update_recommendation_queue(store, user_id, outcome.result,
                        tag.embedding_version, tag.embedding_updated_at, Now)
                 ELSE store
     /\ queue_call' =
          [ user_id |-> user_id, queue_size |-> queue_size, get |-> get,
            profile |-> outcome.profile, path |-> outcome.path,
            existing_queue |-> outcome.existing_queue,
            loaded |-> outcome.loaded, fetched |-> outcome.fetched,
            source |-> IF outcome.loaded /\ ~from_cache THEN <<source>> ELSE <<>>,
            index |-> outcome.index,
            user_vector |-> outcome.user_vector,
            candidates |-> outcome.candidates,
            wrote |-> put,
            result |-> outcome.result ]
     /\ UNCHANGED <<env, pending, response, call, applied, processed, clock,
                    trackerVars, raceVars>>

\* update_user_profile(user_id, track_id, status) of worker w up to the
\* return of get_item: now is taken and the profile is read (the calls to
\* the store and to Spotify succeed)
ReadProfile(w, user_id, track_id, status) ==
  /\ inflight[w].pc # "read"
  /\ processed < MaxEvents
  /\ processed' = processed + 1
  /\ inflight' = [inflight EXCEPT ![w] =
                    [pc |-> "read", user_id |-> user_id, track_id |-> track_id,
                     status |-> status, now |-> Now,
                     profile |-> <<LoadProfile(store, user_id, Now)>>,
                     base |-> Len(applied[user_id])]]
  /\ UNCHANGED <<store, env, pending, response, call, applied, clock,
                 trackerVars, rankerVars, ranking>>

\* the rest of update_user_profile of worker w: the event is folded into
\* the profile it read and put_item stores the result
WriteProfile(w) ==
  LET mine == inflight[w]
      meta_outcome == IF mine.status = "COMPLETED" THEN "ok" ELSE "not_fetched"
      meta == track_metadata(mine.track_id, meta_outcome)
  IN /\ mine.pc = "read"
     /\ store' = PutItem(store, UpdatedProfile(mine.profile[1], mine.track_id,
                                               mine.status, meta, mine.now, env))
     /\ applied' = [applied EXCEPT ![mine.user_id] =
                      Append(@, [track_id |-> mine.track_id,
                                 status |-> mine.status,
                                 meta |-> meta_outcome, ts |-> mine.now])]
     /\ inflight' = [inflight EXCEPT ![w].pc = "done"]
     /\ UNCHANGED <<env, pending, response, call, processed, clock,
                    trackerVars, rankerVars, ranking>>

\* what is noted of a get_recommendation_queue call that ended
QueueCallOf(user_id, queue_size, outcome, put) ==
  [ user_id |-> user_id, queue_size |-> queue_size, get |-> "ok",
    profile |-> outcome.profile, path |-> outcome.path,
    existing_queue |-> outcome.existing_queue,
    loaded |-> outcome.loaded, fetched |-> outcome.fetched,
    source |-> <<>>, index |-> outcome.index,
    user_vector |-> outcome.user_vector,
    candidates |-> outcome.candidates,
    wrote |-> put, result |-> outcome.result ]

\* get_recommendation_queue(user_id, queue_size) up to its write: the
\* profile is read, and the call returns (stored queue reused, or no
\* catalog) or ranks the catalog and has the queue to write (the reads of
\* the store and of the catalog succeed)
ReadQueue(user_id, queue_size, source) ==
  \E outcome \in { get_recommendation_queue(store, item_index_cache, user_id,
                                             queue_size, "ok", source, clock, env) } :
    /\ ranking.pc = "idle"
    /\ item_index_cache' = outcome.cache
    /\ IF outcome.path = "recomputed"
       THEN /\ ranking' = [pc |-> "read", user_id |-> user_id,
                           queue_size |-> queue_size, outcome |-> <<outcome>>]
            /\ UNCHANGED queue_call
       ELSE /\ queue_call' = QueueCallOf(user_id, queue_size, outcome, "none")
            /\ UNCHANGED ranking
    /\ UNCHANGED <<store, env, pending, response, call, applied, processed,
                   clock, trackerVars, inflight>>

\* the rest of get_recommendation_queue: update_recommendation_queue sets
\* the queue attributes of the item as it is stored by now, and the call
\* returns the queue
WriteQueue ==
  LET outcome == ranking.outcome[1]
      tag == QueueTag(outcome.profile[1], Now)
  IN /\ ranking.pc = "read"
     /\ store' = update_recommendation_queue(store, ranking.user_id, outcome.result,
                    tag.embedding_version, tag.embedding_updated_at, Now)
     /\ queue_call' = QueueCallOf(ranking.user_id, ranking.queue_size, outcome, "ok")
     /\ ranking' = IdleRanking
     /\ UNCHANGED <<item_index_cache, env, pending, response, call, applied,
                    processed, clock, trackerVars, inflight>>

NextTracker == \E data \in Snapshots, dt \in Elapsed : CheckStatus(data, dt)

NextProfile ==
  \/ Tick
  \/ \E n \in 0..MaxBatch : Invoke(n)
  \/ \E rec \in Records : \E io \in IOsOf(rec) : ProcessRecord(rec, io)

vars == <<trackerVars, clock, profileVars, rankerVars, raceVars>>

\* the session tracker alone, fed any snapshots
InitTrackerOnly ==
  /\ InitTracker
  /\ InitClock
  /\ InitProfile
  /\ InitRanker
  /\ InitInflight
  /\ env = CHOOSE e \in Envs : e.vocab = <<>>

SpecTracker == InitTrackerOnly /\ [][NextTracker]_vars

\* the hot-path function alone, fed any records, from an empty profile table
InitHotPath ==
  /\ InitTracker
  /\ InitClock
  /\ InitProfile
  /\ InitRanker
  /\ InitInflight

SpecProfile == InitHotPath /\ [][NextProfile]_vars

\* the events of a user who skipped k tracks, t1 and t2 in turn, at EpochSec
SeedEvents(k) ==
  [i \in 1..k |-> [track_id |-> IF i % 2 = 1 THEN "t1" ELSE "t2",
                   status |-> "SKIPPED", meta |-> "not_fetched", ts |-> EpochSec]]

\* the profile update_user_profile has stored after these events
RECURSIVE SeedProfile(_, _, _)
SeedProfile(user_id, events, environ) ==
  IF events = <<>> THEN DefaultProfile(user_id, EpochSec)
  ELSE LET last == events[Len(events)]
           before == SeedProfile(user_id, SubSeq(events, 1, Len(events) - 1), environ)
       IN UpdatedProfile(before, last.track_id, last.status, <<>>, last.ts, environ)

\* the hot-path function, from the profile of a user whose recent_history
\* is one entry short of HistoryLimit, or full
InitLongHistory ==
  /\ InitTracker
  /\ InitClock
  /\ InitRanker
  /\ InitInflight
  /\ env \in Envs
  /\ \E k \in {HistoryLimit - 1, HistoryLimit} :
        /\ store = [u \in {"u1"} |-> SeedProfile("u1", SeedEvents(k), env)]
        /\ applied = [u \in Users |-> IF u = "u1" THEN SeedEvents(k) ELSE <<>>]
  /\ pending = 0
  /\ response = "idle"
  /\ call = IdleCall
  /\ processed = 0

SpecHistory == InitLongHistory /\ [][NextProfile]_vars

\* the profile update_user_profile stores after these plays, one after the
\* other, starting from profile
RECURSIVE ApplyPlays(_, _, _)
ApplyPlays(profile, plays, environ) ==
  IF plays = <<>> THEN profile
  ELSE LET play == Head(plays)
       IN ApplyPlays(UpdatedProfile(profile, play.track_id, play.status,
                                    track_metadata(play.track_id, play.meta),
                                    play.ts, environ),
                     Tail(plays), environ)

\* the profile after get_recommendation_queue stored this queue at time now
WithQueue(profile, queue, now) ==
  update_recommendation_queue([u \in {profile.user_id} |-> profile],
    profile.user_id, queue, QueueTag(profile, now).embedding_version,
    QueueTag(profile, now).embedding_updated_at, now)[profile.user_id]

\* a COMPLETED play whose metadata was fetched
Completed(track_id, ts) ==
  [track_id |-> track_id, status |-> "COMPLETED", meta |-> "ok", ts |-> ts]

\* the plays of a user who listened to t1 twice, at EpochSec
ListenerPlays == << Completed("t1", EpochSec), Completed("t1", EpochSec) >>

\* the hot-path function, from the profile of a user who listened to t1
\* twice and was then recommended t2, t3 and t2 again (by a catalog that
\* lists t2 twice)
InitListener ==
  /\ InitTracker
  /\ InitClock
  /\ InitRanker
  /\ InitInflight
  /\ env \in Envs
  /\ store = [u \in {"u1"} |->
                WithQueue(ApplyPlays(DefaultProfile("u1", EpochSec), ListenerPlays, env),
                          <<"t2", "t3", "t2">>, EpochSec)]
  /\ applied = [u \in Users |-> IF u = "u1" THEN ListenerPlays ELSE <<>>]
  /\ pending = 0
  /\ response = "idle"
  /\ call = IdleCall
  /\ processed = 0

SpecListener == InitListener /\ [][NextProfile]_vars

\* the largest queue_size get_recommendation_queue is called with
MaxQueueSize == 2

\* the environments of the catalog cache: the vocabulary is empty, the
\* cache lives DEFAULT_INDEX_TTL_SECONDS or one second
CacheEnvs ==
  { [vocab |-> <<>>, tempo_min |-> <<>>, tempo_max |-> <<>>, index_ttl |-> ttl] :
      ttl \in { <<>>, <<Scale>> } }

\* the environment of the recommender: nothing is set
RankerEnvs == { environ \in CacheEnvs : environ.index_ttl = <<>> }

\* the profiles the recommender finds: of a user who completed t1 a second
\* before EpochSec; who was then given the queue t4, t5, or the queue t4;
\* and who, with the queue t4, t5 stored, skipped t2 at EpochSec
RankerProfiles(environ) ==
  LET listened == ApplyPlays(DefaultProfile("u1", EpochSec - 1),
                             << Completed("t1", EpochSec - 1) >>, environ)
      queued == WithQueue(listened, <<"t4", "t5">>, EpochSec - 1)
  IN { listened,
       queued,
       WithQueue(listened, <<"t4">>, EpochSec - 1),
       UpdatedProfile(queued, "t2", "SKIPPED", <<>>, EpochSec, environ) }

\* the recommender alone, with no profile stored or one of RankerProfiles
InitRecommender ==
  /\ InitTracker
  /\ InitClock
  /\ InitRanker
  /\ InitInflight
  /\ env \in RankerEnvs
  /\ store \in { [u \in {} |-> 0] }
                 \cup { [u \in {"u1"} |-> profile] : profile \in RankerProfiles(env) }
  /\ pending = 0
  /\ response = "idle"
  /\ call = IdleCall
  /\ applied = NoApplied
  /\ processed = 0

NextRanker ==
  \/ Tick
  \/ \E user_id \in Users, queue_size \in 0..MaxQueueSize,
        get \in StoreOutcomes, source \in CatalogSources :
       GetQueue(user_id, queue_size, get, source)

SpecRanker == InitRecommender /\ [][NextRanker]_vars

\* the recommender and its catalog cache, under either TTL, for a user who
\* completed t1 and has no queue
InitCache ==
  /\ InitTracker
  /\ InitClock
  /\ InitRanker
  /\ InitInflight
  /\ env \in CacheEnvs
  /\ store = [u \in {"u1"} |->
                ApplyPlays(DefaultProfile("u1", EpochSec - 1),
                           << Completed("t1", EpochSec - 1) >>, env)]
  /\ pending = 0
  /\ response = "idle"
  /\ call = IdleCall
  /\ applied = NoApplied
  /\ processed = 0

SpecCache == InitCache /\ [][NextRanker]_vars

\* two hot-path invocations run side by side, from an empty profile table
InitRace ==
  /\ InitTracker
  /\ InitClock
  /\ InitProfile
  /\ InitRanker
  /\ InitInflight

NextRace ==
  \/ Tick
  \/ \E w \in Workers, user_id \in Users, track_id \in TrackIds,
        status \in Statuses :
       ReadProfile(w, user_id, track_id, status)
  \/ \E w \in Workers : WriteProfile(w)

SpecRace == InitRace /\ [][NextRace]_vars

\* the hot-path function and the recommender work on the profile of one
\* user side by side, from an empty profile table; the tracks played are
\* t1 and t4, which the catalog lists
InitInterleaved ==
  /\ InitTracker
  /\ InitClock
  /\ InitRanker
  /\ InitInflight
  /\ store = [u \in {} |-> 0]
  /\ env \in RankerEnvs
  /\ pending = 0
  /\ response = "idle"
  /\ call = IdleCall
  /\ applied = NoApplied
  /\ processed = 0

NextInterleaved ==
  \/ Tick
  \/ \E user_id \in Users, track_id \in {"t1", "t4"},
        status \in {"COMPLETED", "SKIPPED"} :
       ReadProfile("w1", user_id, track_id, status)
  \/ WriteProfile("w1")
  \/ \E user_id \in Users, queue_size \in 1..MaxQueueSize :
       ReadQueue(user_id, queue_size, [status |-> "ok", payload |-> CatalogA])
  \/ WriteQueue

SpecInterleaved == InitInterleaved /\ [][NextInterleaved]_vars

\* the environments the embedding is built under: a vocabulary that lists
\* a genre twice with the tempo bounds swapped; a minimum above the default
\* maximum; bounds above the tempi of the tracks; bounds below them
EmbeddingEnvs ==
  { [vocab |-> <<"r", ",", "r">>,
     tempo_min |-> <<200 * Scale>>, tempo_max |-> <<50 * Scale>>,
     index_ttl |-> <<>>],
    [vocab |-> <<"r", ",", " ", "h", " ", "h">>,
     tempo_min |-> <<250 * Scale>>, tempo_max |-> <<>>,
     index_ttl |-> <<>>],
    [vocab |-> <<>>,
     tempo_min |-> <<130 * Scale>>, tempo_max |-> <<180 * Scale>>,
     index_ttl |-> <<>>],
    [vocab |-> <<"r">>,
     tempo_min |-> <<50 * Scale>>, tempo_max |-> <<80 * Scale>>,
     index_ttl |-> <<>>] }

\* the hot-path function under these environments, from an empty table
InitEmbedding ==
  /\ InitTracker
  /\ InitClock
  /\ InitRanker
  /\ InitInflight
  /\ store = [u \in {} |-> 0]
  /\ env \in EmbeddingEnvs
  /\ pending = 0
  /\ response = "idle"
  /\ call = IdleCall
  /\ applied = NoApplied
  /\ processed = 0

SpecEmbedding == InitEmbedding /\ [][NextProfile]_vars

\* the recommender finds the profile of a user who completed t1, stored by
\* a hot-path function that runs under another environment
InitReconfigured ==
  /\ InitTracker
  /\ InitClock
  /\ InitRanker
  /\ InitInflight
  /\ env \in RankerEnvs
  /\ store \in { [u \in {"u1"} |->
                    ApplyPlays(DefaultProfile("u1", EpochSec - 1),
                               << Completed("t1", EpochSec - 1) >>, other)] :
                  other \in EmbeddingEnvs }
  /\ pending = 0
  /\ response = "idle"
  /\ call = IdleCall
  /\ applied = NoApplied
  /\ processed = 0

SpecReconfigured == InitReconfigured /\ [][NextRanker]_vars

\* ========================================================================
\* Properties of the session tracker
\* ========================================================================
\* the last call was given a snapshot with a track
HasTrack == ~NoTrack(spotify_data)

\* C1: every check_status call emits an event exactly when its snapshot is a
\* track-id transition: it has a track whose id differs from the tracked
\* one, and it is not the first snapshot with a track the tracker sees.
C1_OneEventPerTransition ==
  [][ (event' # <<>>) <=>
        ( /\ ~NoTrack(spotify_data')
          /\ seen_before
          /\ spotify_data'.item[1].id # current_track_id ) ]_vars

\* C2: an emitted event names the track tracked before the call, not the
\* snapshot's track, and after the call the tracker holds the snapshot's
\* track id and name and the time of the call.
C2_EventIsPreviousTrack ==
  [][ event' # <<>> =>
        /\ event'[1].track_id = current_track_id
        /\ event'[1].track_name = current_track_name
        /\ event'[1].track_id # spotify_data'.item[1].id
        /\ current_track_id' = spotify_data'.item[1].id
        /\ current_track_name' = spotify_data'.item[1].name
        /\ start_time' = clock' ]_vars

C2_Witness ==
  /\ event # <<>>
  /\ event[1].track_id = "t1" /\ event[1].track_name = "n1"
  /\ current_track_id = "t2" /\ current_track_name = "n2"
  /\ start_time = clock

\* C3: in every emitted event, duration_listened < min_listen_time goes with
\* SKIPPED and duration_listened >= min_listen_time with COMPLETED, the
\* threshold itself included; no other status occurs.
C3_StatusByDuration ==
  event # <<>> =>
    /\ event[1].status \in {"SKIPPED", "COMPLETED"}
    /\ (event[1].duration_listened < min_listen_time => event[1].status = "SKIPPED")
    /\ (event[1].duration_listened >= min_listen_time => event[1].status = "COMPLETED")

C3_Witness ==
  /\ event # <<>>
  /\ event[1].duration_listened = min_listen_time
  /\ event[1].status = "COMPLETED"

\* C4: a call whose snapshot has no track, or whose track id is the tracked
\* one, returns no event and leaves the tracked id, name and start time.
C4_NoTrackOrSameTrack ==
  [][ ( \/ NoTrack(spotify_data')
        \/ spotify_data'.item[1].id = current_track_id )
      => /\ event' = <<>>
         /\ UNCHANGED <<current_track_id, current_track_name, start_time>> ]_vars

C4_Witness ==
  /\ HasTrack
  /\ spotify_data.item[1].id = current_track_id
  /\ current_track_id = "t1"
  /\ clock > start_time
  /\ event = <<>>

\* ========================================================================
\* Properties of the hot-path profile update
\* ========================================================================
\* the positions of a user's persisted events that satisfy a condition
CompletedAt(u) == {i \in DOMAIN applied[u] : applied[u][i].status = "COMPLETED"}
SkippedAt(u) == {i \in DOMAIN applied[u] : applied[u][i].status = "SKIPPED"}
\* ... the COMPLETED events whose metadata was fetched
FoldedAt(u) == {i \in CompletedAt(u) : applied[u][i].meta = "ok"}

\* C5: in every stored profile,
\* total_tracks_played = total_completions + total_skips.
C5_TotalsAddUp ==
  \A u \in DOMAIN store :
    store[u].total_tracks_played = store[u].total_completions + store[u].total_skips

\* C6 as stated: audio_profile.samples is the number of COMPLETED events
\* applied to the profile.
C6_SamplesCountCompleted ==
  \A u \in DOMAIN store :
    store[u].audio_profile.samples = Cardinality(CompletedAt(u))

\* C6, amended: audio_profile.samples is the number of applied COMPLETED
\* events whose metadata fetch succeeded; SKIPPED events, and COMPLETED
\* events without metadata, leave it as it is.
C6_SamplesCountFolded ==
  \A u \in DOMAIN store :
    store[u].audio_profile.samples = Cardinality(FoldedAt(u))

C6_Witness ==
  /\ "u1" \in DOMAIN store
  /\ store["u1"].audio_profile.samples = 1
  /\ SkippedAt("u1") # {}
  /\ FoldedAt("u1") # {}

MetaFailures == {"no_features", "api_error", "secret_error"}

\* C7: a COMPLETED event whose metadata fetch fails, in whatever way, is
\* still persisted (the profile store working): total_tracks_played and
\* total_completions are one more, the play heads recent_history, and
\* audio_profile, genre_affinity and artist_affinity are as before.
C7_MetadataFailureStillRecorded ==
  [][ ( /\ processed' # processed
        /\ call'.status = "COMPLETED"
        /\ call'.meta \in MetaFailures
        /\ call'.outcome # "put_failed" )
      => LET u == call'.user_id
             before == LoadProfile(store, u, Now)
         IN /\ call'.outcome = "persisted"
            /\ u \in DOMAIN store'
            /\ store'[u].total_tracks_played = before.total_tracks_played + 1
            /\ store'[u].total_completions = before.total_completions + 1
            /\ store'[u].recent_history[1] =
                 [track_id |-> call'.track_id, status |-> "COMPLETED", ts |-> Now]
            /\ store'[u].audio_profile = before.audio_profile
            /\ store'[u].genre_affinity = before.genre_affinity
            /\ store'[u].artist_affinity = before.artist_affinity ]_vars

\* the recent_history entry of a persisted event
HistoryEntry(e) == [track_id |-> e.track_id, status |-> e.status, ts |-> e.ts]

\* C8: the stored recent_history holds at most HistoryLimit entries, the
\* last ones applied, newest first: entry i is the i-th last applied event.
C8_HistoryNewestFirst ==
  \A u \in DOMAIN store :
    LET h == store[u].recent_history
        a == applied[u]
    IN /\ Len(h) <= HistoryLimit
       /\ Len(h) = IF Len(a) < HistoryLimit THEN Len(a) ELSE HistoryLimit
       /\ \A i \in DOMAIN h : h[i] = HistoryEntry(a[Len(a) - i + 1])

C8_Witness ==
  /\ "u1" \in DOMAIN store
  /\ Len(applied["u1"]) > HistoryLimit
  /\ Len(store["u1"].recent_history) = HistoryLimit
  /\ store["u1"].recent_history[1].status = "COMPLETED"
  /\ store["u1"].recent_history[2].status = "SKIPPED"

\* the artist of a persisted event whose metadata was fetched
ArtistOf(e) == TrackCatalog(e.track_id).artist_info.id

\* the positions of the events that sighted artist a
SightingsAt(u, a) == {i \in FoldedAt(u) : ArtistOf(applied[u][i]) = a}

\* C9: every artist sighted by a COMPLETED event with metadata has one
\* entry in artist_affinity, whose affinity is the number of its sightings
\* and whose last_played_ts is the time of the last one; the entries are in
\* the order of the artists' first sightings.
C9_ArtistAffinityCounts ==
  \A u \in DOMAIN store :
    LET artists == store[u].artist_affinity
        sighted == {ArtistOf(applied[u][i]) : i \in FoldedAt(u)}
    IN /\ {artists[i].artist_id : i \in DOMAIN artists} = sighted
       /\ Len(artists) = Cardinality(sighted)
       /\ \A i \in DOMAIN artists :
            LET at == SightingsAt(u, artists[i].artist_id)
            IN /\ artists[i].affinity = Cardinality(at)
               /\ artists[i].last_played_ts = applied[u][Max(at)].ts
       /\ \A i, j \in DOMAIN artists :
            i < j => Max({0} \cup {-k : k \in SightingsAt(u, artists[i].artist_id)})
                     > Max({-k : k \in SightingsAt(u, artists[j].artist_id)})

\* the genre strings fetched for a user's persisted events, as <<event, n>>
FetchedGenres(u) ==
  {<<i, j>> \in FoldedAt(u) \X (1..2) :
     j <= Len(TrackCatalog(applied[u][i].track_id).genres)}

GenreAt(u, ij) == TrackCatalog(applied[u][ij[1]].track_id).genres[ij[2]]

\* C10: the keys of genre_affinity are the normalized labels (trimmed,
\* blanks to underscores) of the fetched genres, and each counter is the
\* number of fetched genre strings with that normalized label.
C10_GenreKeysNormalized ==
  \A u \in DOMAIN store :
    LET counts == store[u].genre_affinity
        labels == {normalize_genre_label(GenreAt(u, ij)) : ij \in FetchedGenres(u)}
    IN /\ DOMAIN counts = labels
       /\ \A k \in labels :
            counts[k] = Cardinality({ij \in FetchedGenres(u) :
                                       normalize_genre_label(GenreAt(u, ij)) = k})

\* the averages of audio_profile and the features they average
AudioFeatures ==
  { <<"avg_danceability", "danceability">>, <<"avg_energy", "energy">>,
    <<"avg_valence", "valence">>, <<"avg_acousticness", "acousticness">>,
    <<"avg_tempo", "tempo">> }

\* the sum of a feature over the user's COMPLETED events with metadata
RECURSIVE FeatureSum(_, _, _)
FeatureSum(u, feature, at) ==
  IF at = {} THEN 0
  ELSE LET i == CHOOSE x \in at : TRUE
       IN TrackCatalog(applied[u][i].track_id).features[feature]
            + FeatureSum(u, feature, at \ {i})

Abs(x) == IF x < 0 THEN -x ELSE x

\* the stored averages are the means of the fetched values, up to the
\* rounding of the N divisions: |N * avg - sum| <= (2 + ... + N) / 2
MeansOfFetched ==
  \A u \in DOMAIN store : \A f \in AudioFeatures :
    LET n == Cardinality(FoldedAt(u))
        avg == store[u].audio_profile[f[1]]
    IN /\ store[u].audio_profile.samples = n
       /\ 4 * Abs(n * avg - FeatureSum(u, f[2], FoldedAt(u))) <= n * (n + 1)

\* a step that persists a COMPLETED event with metadata computes every
\* average from the samples value stored before it, and adds one to samples
SamePreIncrementSamples ==
  ( /\ processed' # processed
    /\ call'.outcome = "persisted"
    /\ call'.status = "COMPLETED"
    /\ call'.meta = "ok" )
  => LET u == call'.user_id
         before == LoadProfile(store, u, Now).audio_profile
         after == store'[u].audio_profile
         new_features == TrackCatalog(call'.track_id).features
     IN /\ after.samples = before.samples + 1
        /\ \A f \in AudioFeatures :
             after[f[1]] = RoundDiv(before[f[1]] * before.samples + new_features[f[2]],
                                    before.samples + 1)

\* C11: after N COMPLETED updates with fetched feature values v1..vN the
\* stored average of each feature is mean(v1..vN), within the rounding of
\* the arithmetic; within one update every feature's average is computed
\* with the same pre-increment samples and samples is incremented once.
C11_RunningMean == []MeansOfFetched /\ [][SamePreIncrementSamples]_vars

\* four fetched values whose running average is not their mean rounded
C11_Witness ==
  /\ "u1" \in DOMAIN store
  /\ store["u1"].audio_profile.samples = 4
  /\ store["u1"].audio_profile.avg_acousticness > 0
  /\ store["u1"].audio_profile.avg_acousticness
       # RoundDiv(FeatureSum("u1", "acousticness", FoldedAt("u1")), 4)

\* C12: when update_user_profile(user, track_id, status) persists, the
\* stored recommendation_queue has no entry equal to track_id, and its
\* entries are the other entries of the queue read, in their order.
C12_PlayedTrackLeavesQueue ==
  [][ ( /\ processed' # processed
        /\ call'.outcome = "persisted" )
      => LET u == call'.user_id
             queue == LoadProfile(store, u, Now).recommendation_queue
             cleaned == store'[u].recommendation_queue
             kept == {i \in DOMAIN queue : queue[i] # call'.track_id}
         IN /\ \A j \in DOMAIN cleaned : cleaned[j] # call'.track_id
            /\ Len(cleaned) = Cardinality(kept)
            /\ \A j \in DOMAIN cleaned :
                 cleaned[j] = queue[CHOOSE i \in kept :
                                      Cardinality({k \in kept : k <= i}) = j] ]_vars

\* t2, queued twice around t3, was played: t3 is what is left of the queue
C12_Witness ==
  /\ call.outcome = "persisted"
  /\ call.track_id = "t2"
  /\ processed = 1
  /\ store["u1"].recommendation_queue = <<"t3">>

\* C13: a SKIPPED event applied by update_user_profile adds one to
\* total_skips and to total_tracks_played and leaves audio_profile (the
\* averages and samples), genre_affinity and artist_affinity as they were.
C13_SkipLeavesTasteStats ==
  [][ ( /\ processed' # processed
        /\ call'.outcome = "persisted"
        /\ call'.status = "SKIPPED" )
      => LET u == call'.user_id
             before == LoadProfile(store, u, Now)
         IN /\ store'[u].total_skips = before.total_skips + 1
            /\ store'[u].total_tracks_played = before.total_tracks_played + 1
            /\ store'[u].total_completions = before.total_completions
            /\ store'[u].audio_profile = before.audio_profile
            /\ store'[u].genre_affinity = before.genre_affinity
            /\ store'[u].artist_affinity = before.artist_affinity ]_vars

\* a skip applied to a profile that has averages, samples and genres
C13_Witness ==
  /\ call.outcome = "persisted"
  /\ call.status = "SKIPPED"
  /\ store["u1"].total_skips = 1
  /\ store["u1"].total_tracks_played = 3
  /\ store["u1"].audio_profile.samples = 2
  /\ store["u1"].audio_profile.avg_energy = Scale
  /\ DOMAIN store["u1"].genre_affinity # {}

\* ========================================================================
\* Properties of the recommendation ranker
\* ========================================================================
\* the last get_recommendation_queue call found a profile
FoundProfile == queue_call.profile # <<>>

\* the queue stored in the profile the last call fetched
StoredQueue == Get(queue_call.profile[1], "recommendation_queue", <<>>)

\* the last call returned the stored queue cut to queue_size, without
\* loading the catalog and without writing to the profile store
ReusedStoredQueue ==
  /\ queue_call.result = Take(StoredQueue, queue_call.queue_size)
  /\ ~queue_call.loaded
  /\ queue_call.wrote = "none"
  /\ store[queue_call.user_id] = queue_call.profile[1]

\* C14: a call that finds a profile returns the stored queue as it is (cut
\* to queue_size, no catalog load, no write) if and only if the queue's
\* version is the profile's embedding version, queue_embedding_ts is at
\* least embedding_updated_at, and the stored queue has queue_size entries
\* or more.
C14_ReuseIffFresh ==
  FoundProfile =>
    LET profile == queue_call.profile[1]
    IN ReusedStoredQueue
       <=> ( /\ profile.queue_embedding_version = profile.embedding_version
             /\ profile.queue_embedding_ts >= profile.embedding_updated_at
             /\ Len(StoredQueue) >= queue_call.queue_size )

\* the stored queue t4, t5 is fresh and is returned cut to one entry
C14_Witness ==
  /\ FoundProfile
  /\ StoredQueue = <<"t4", "t5">>
  /\ queue_call.queue_size = 1
  /\ queue_call.result = <<"t4">>
  /\ ReusedStoredQueue

\* the profile the last call fetched
CallProfile == queue_call.profile[1]

\* the stored queue predates the embedding: another version, or an older
\* timestamp
QueueIsStale ==
  \/ CallProfile.queue_embedding_version # CallProfile.embedding_version
  \/ CallProfile.queue_embedding_ts < CallProfile.embedding_updated_at

\* the last call found a profile whose queue it could not reuse
NotReused == FoundProfile /\ queue_call.path # "cached"

\* the last call ranked the catalog
Recomputed == FoundProfile /\ queue_call.path = "recomputed"

\* the catalog could not be loaded, or has no items
NoCatalog == FoundProfile /\ queue_call.path \in {"no_index", "empty_index"}

\* the items of the catalog the last call ranked
CatalogItems == item_index_cache.payload[1].items

\* the entries of a list
Range(seq) == {seq[i] : i \in DOMAIN seq}

\* C15: when the stored queue is stale (older timestamp or other version),
\* a call that cannot reuse it drops it whole, however long it is: what is
\* returned, and stored, are only candidates of this call's ranking of the
\* catalog (nothing at all when there is no catalog).
C15_StaleQueueDiscarded ==
  (NotReused /\ QueueIsStale) =>
    /\ queue_call.existing_queue = <<>>
    /\ queue_call.result = Take(queue_call.candidates, queue_call.queue_size)
    /\ NoCatalog => queue_call.result = <<>>
    /\ Recomputed =>
         /\ Range(queue_call.result) \subseteq {CatalogItems[i].item_id : i \in DOMAIN CatalogItems}
         /\ queue_call.wrote = "ok" =>
              store[queue_call.user_id].recommendation_queue = queue_call.result

\* the stale queue t4, t5 has queue_size entries; t5 is not in the catalog
\* that is ranked, and is not in the new queue
C15_Witness ==
  /\ Recomputed
  /\ QueueIsStale
  /\ CallProfile.queue_embedding_version = CallProfile.embedding_version
  /\ StoredQueue = <<"t4", "t5">>
  /\ queue_call.queue_size = 2
  /\ queue_call.result = <<"t4", "t4">>
  /\ queue_call.wrote = "ok"

\* C16: when the catalog cannot be loaded or is empty, the call returns the
\* stored queue, stale or partial as it may be, cut to queue_size, and
\* writes nothing to the profile store.
C16_NoCatalogReturnsStoredQueue ==
  NoCatalog =>
    /\ queue_call.result = Take(StoredQueue, queue_call.queue_size)
    /\ queue_call.wrote = "none"
    /\ store[queue_call.user_id] = CallProfile

\* the queue the last call kept of the stored one
RetainedByCall == IF QueueIsStale THEN <<>> ELSE StoredQueue

\* the track ids of the fetched profile's recent_history
RecentIds ==
  {CallProfile.recent_history[i].track_id : i \in DOMAIN CallProfile.recent_history}

\* C17: no track id of the profile's recent_history or of the retained
\* queue is among the candidates rank_items returns to
\* get_recommendation_queue, whatever its score.
C17_ExcludedNeverRanked ==
  Recomputed =>
    Range(queue_call.candidates) \cap (RecentIds \cup Range(RetainedByCall)) = {}

\* t1, played and the catalog's best match, and t4, already queued, are in
\* the catalog and not among the candidates
C17_Witness ==
  /\ Recomputed
  /\ "t1" \in RecentIds
  /\ RetainedByCall = <<"t4">>
  /\ {"t1", "t4"} \subseteq {CatalogItems[i].item_id : i \in DOMAIN CatalogItems}
  /\ \A i \in DOMAIN CatalogItems :
       cosine_similarity(CallProfile.user_embedding, CatalogItems[i].vector)
         <= cosine_similarity(CallProfile.user_embedding,
                              <<Scale \div 2, Scale, Scale \div 5, 0, Scale \div 2>>)
  /\ queue_call.candidates = <<"t5", "t6", "t3">>

\* the positions of the catalog items rank_items may return
Eligible ==
  {i \in DOMAIN CatalogItems :
     /\ CatalogItems[i].item_id \notin RecentIds \cup Range(RetainedByCall)
     /\ Len(CatalogItems[i].vector) = Len(CallProfile.user_embedding)}

\* the score of the catalog item at position i
ScoreAt(i) == cosine_similarity(CallProfile.user_embedding, CatalogItems[i].vector)

\* the eligible positions that come before position i in the ranking: a
\* higher score, or the same score and earlier in the catalog
Ahead(i) ==
  {j \in Eligible : ScoreAt(j) > ScoreAt(i) \/ (ScoreAt(j) = ScoreAt(i) /\ j < i)}

\* C18: the candidates are the eligible catalog items (not excluded, vector
\* as long as the user's), best cosine similarity first, items of equal
\* score in catalog order, cut to the limit; an item whose vector has
\* another length is not among them.
C18_RankedByScoreStable ==
  Recomputed =>
    LET candidates == queue_call.candidates
        limit == 2 * queue_call.queue_size
    IN /\ Len(candidates) = IF Cardinality(Eligible) < limit
                            THEN Cardinality(Eligible) ELSE limit
       /\ \A k \in DOMAIN candidates :
            \E i \in Eligible :
              /\ Cardinality(Ahead(i)) = k - 1
              /\ candidates[k] = CatalogItems[i].item_id
       /\ \A k \in DOMAIN candidates : k > 1 =>
            \E i, j \in Eligible :
              /\ candidates[k - 1] = CatalogItems[i].item_id
              /\ candidates[k] = CatalogItems[j].item_id
              /\ ScoreAt(i) >= ScoreAt(j)

\* t4 and t5 have the same score and t4 comes first in the catalog; t7 has a
\* vector of two entries
C18_Witness ==
  /\ Recomputed
  /\ queue_call.queue_size = 2
  /\ queue_call.candidates = <<"t4", "t5", "t6", "t3">>
  /\ \E i \in DOMAIN CatalogItems :
       CatalogItems[i].item_id = "t7" /\ Len(CatalogItems[i].vector) = 2
  /\ \E i, j \in Eligible :
       /\ i < j /\ ScoreAt(i) = ScoreAt(j)
       /\ CatalogItems[i].item_id = "t4" /\ CatalogItems[j].item_id = "t5"

\* C19: on the recompute path at most 2 * queue_size candidates are taken,
\* and the returned queue is the retained queue followed by the first
\* candidates, cut to queue_size: it has at most queue_size entries and the
\* retained queue is its prefix, in order.
C19_RetainedThenCandidates ==
  Recomputed =>
    LET result == queue_call.result
        candidates == queue_call.candidates
        kept == Len(RetainedByCall)
        total == kept + Len(candidates)
    IN /\ Len(candidates) <= 2 * queue_call.queue_size
       /\ Len(result) <= queue_call.queue_size
       /\ Len(result) = IF total < queue_call.queue_size THEN total
                        ELSE queue_call.queue_size
       /\ kept <= Len(result)
       /\ \A i \in DOMAIN result :
            result[i] = IF i <= kept THEN RetainedByCall[i] ELSE candidates[i - kept]

\* the retained t4 is followed by the best of three candidates
C19_Witness ==
  /\ Recomputed
  /\ queue_call.queue_size = 2
  /\ RetainedByCall = <<"t4">>
  /\ Len(queue_call.candidates) = 3
  /\ queue_call.result = <<"t4", "t5">>

\* C20: after a recompute the new queue is stored with the profile's
\* embedding version and embedding_updated_at (and the time of the call),
\* and it is the queue returned, also when the store rejects the write, in
\* which case the stored profile is as it was.
C20_PersistTaggedAndReturn ==
  Recomputed =>
    LET stored == store[queue_call.user_id]
    IN /\ queue_call.wrote \in {"ok", "error"}
       /\ queue_call.result =
            Take(RetainedByCall \o queue_call.candidates, queue_call.queue_size)
       /\ queue_call.wrote = "ok" =>
            /\ stored.recommendation_queue = queue_call.result
            /\ stored.queue_embedding_version = CallProfile.embedding_version
            /\ stored.queue_embedding_ts = CallProfile.embedding_updated_at
            /\ stored.queue_updated_at <= Now
            /\ stored.queue_updated_at >= CallProfile.queue_updated_at
       /\ queue_call.wrote = "error" => stored = CallProfile

\* the write of a newly ranked queue fails and the queue is returned
C20_Witness ==
  /\ Recomputed
  /\ queue_call.wrote = "error"
  /\ queue_call.result = <<"t4", "t5">>
  /\ StoredQueue = <<>>
  /\ store[queue_call.user_id] = CallProfile
  /\ CallProfile.embedding_updated_at < Now

\* no entry of the list occurs twice
NoDuplicates(seq) == \A i, j \in DOMAIN seq : i # j => seq[i] # seq[j]

\* C21: the queue get_recommendation_queue returns, and the queue it
\* stores, hold no track id more than once, whatever the catalog (one that
\* lists an item id twice included) and the stored queue.
C21_QueueDeduplicated ==
  /\ NoDuplicates(queue_call.result)
  /\ \A u \in DOMAIN store : NoDuplicates(store[u].recommendation_queue)

\* C22: a call for a user who has no profile, or whose profile cannot be
\* read, returns the empty queue, does not load the catalog (the cache is
\* as before) and writes nothing to the profile store.
C22_NoProfileNoQueue ==
  [][ ( /\ queue_call' # queue_call
        /\ \/ queue_call'.get = "error"
           \/ queue_call'.user_id \notin DOMAIN store )
      => /\ queue_call'.result = <<>>
         /\ ~queue_call'.loaded
         /\ ~queue_call'.fetched
         /\ queue_call'.wrote = "none"
         /\ store' = store
         /\ item_index_cache' = item_index_cache ]_vars

\* the read of a profile that has a queue failed: nothing is returned
C22_Witness ==
  /\ queue_call.get = "error"
  /\ queue_call.user_id \in DOMAIN store
  /\ store[queue_call.user_id].recommendation_queue = <<"t4", "t5">>
  /\ queue_call.queue_size = 2
  /\ queue_call.result = <<>>
  /\ ~queue_call.loaded

\* the cache holds a payload loaded less than the configured TTL ago
WithinTtl ==
  /\ item_index_cache.payload # <<>>
  /\ (clock - item_index_cache.loaded_at) * Scale < IndexTtl(env) * TicksPerSec

\* the step is a get_recommendation_queue call that calls load_item_index
LoadsIndex == queue_call' # queue_call /\ queue_call'.loaded

\* C23: a load_item_index call made less than the configured TTL after the
\* load that filled the cache returns the cached payload, does not go to the
\* catalog source and leaves the cache as it is.
C23_CachedWithinTtl ==
  [][ (LoadsIndex /\ WithinTtl)
      => /\ ~queue_call'.fetched
         /\ queue_call'.index = item_index_cache.payload
         /\ item_index_cache' = item_index_cache ]_vars

\* a second after the load, under the default TTL, the cached payload is
\* handed out
C23_Witness ==
  /\ env.index_ttl = <<>>
  /\ queue_call.loaded
  /\ ~queue_call.fetched
  /\ queue_call.index = item_index_cache.payload
  /\ queue_call.index # <<>>
  /\ clock = item_index_cache.loaded_at + TicksPerSec

\* the catalog source cannot be read or parsed, or what it holds is not a
\* catalog (neither an object with a list of items nor a list)
SourceFails(source) ==
  \/ source.status # "ok"
  \/ source.payload.shape \notin {"dict", "list"}
  \/ source.payload.items = <<>>

\* C24: a load_item_index call that goes to the source and fails (fetch,
\* parse or normalization) returns no payload and leaves the cache, with the
\* payload it may hold, as it was.
C24_FailureNotMemoized ==
  [][ (LoadsIndex /\ ~WithinTtl /\ SourceFails(queue_call'.source[1]))
      => /\ queue_call'.index = <<>>
         /\ item_index_cache' = item_index_cache ]_vars

\* the cached payload has expired and the fetch fails: the payload stays
C24_Witness ==
  /\ queue_call.loaded
  /\ queue_call.fetched
  /\ queue_call.source[1].status = "error"
  /\ queue_call.index = <<>>
  /\ item_index_cache.payload # <<>>
  /\ (clock - item_index_cache.loaded_at) * Scale >= IndexTtl(env) * TicksPerSec

\* the attributes update_recommendation_queue sets
QueueFields ==
  { "recommendation_queue", "queue_updated_at", "queue_embedding_version",
    "queue_embedding_ts" }

\* the two items have the same attributes but for the queue attributes
SameButQueue(before, after) ==
  /\ DOMAIN after \ QueueFields = DOMAIN before \ QueueFields
  /\ \A key \in DOMAIN before \ QueueFields : after[key] = before[key]

\* C25: a get_recommendation_queue call leaves every stored profile as it
\* was but for recommendation_queue, queue_updated_at,
\* queue_embedding_version and queue_embedding_ts: counters, audio_profile,
\* affinities, recent_history, user_embedding and the embedding timestamps
\* are not written, and no item is added or removed.
C25_OnlyQueueFieldsWritten ==
  [][ queue_call' # queue_call
      => /\ DOMAIN store' = DOMAIN store
         /\ \A u \in DOMAIN store : SameButQueue(store[u], store'[u]) ]_vars

\* the last call stored a queue that differs from the one it found
C25_Witness ==
  /\ queue_call.wrote = "ok"
  /\ store[queue_call.user_id].recommendation_queue
       # CallProfile.recommendation_queue
  /\ store[queue_call.user_id].queue_updated_at > CallProfile.queue_updated_at
  /\ SameButQueue(CallProfile, store[queue_call.user_id])

\* ========================================================================
\* Properties of hot-path invocations that run side by side
\* ========================================================================
\* worker w writes in this step, after worker v, which read the same state
\* of the user's profile, has written: both reads came before either write
WritesAfter(w, v) ==
  /\ w # v
  /\ inflight[w].pc = "read"
  /\ inflight'[w].pc = "done"
  /\ inflight[v].pc = "done"
  /\ inflight[v].user_id = inflight[w].user_id
  /\ inflight[v].base = inflight[w].base

\* C26: when two update_user_profile invocations for a user have both read
\* the profile before either writes, the later write replaces the earlier
\* one: the stored profile is the profile both read with the later event
\* alone folded in (one play counted, the later event's completion or skip,
\* the later event's history entry), although two updates were stored.
C26_LaterWriteWins ==
  [][ \A w, v \in Workers :
        WritesAfter(w, v)
        => LET mine == inflight[w]
               read == mine.profile[1]
               stored == store'[mine.user_id]
           IN /\ Len(applied'[mine.user_id]) = mine.base + 2
              /\ stored.total_tracks_played = read.total_tracks_played + 1
              /\ stored.total_completions
                   = read.total_completions
                       + (IF mine.status = "COMPLETED" THEN 1 ELSE 0)
              /\ stored.total_skips
                   = read.total_skips + (IF mine.status = "SKIPPED" THEN 1 ELSE 0)
              /\ stored.recent_history
                   = PushHistory(read.recent_history,
                                 [track_id |-> mine.track_id,
                                  status |-> mine.status, ts |-> mine.now]) ]_vars

\* a completion of t1 and a skip of t2 were both stored for a new user, and
\* the profile counts one play, no completion and has no entry for t1
C26_Witness ==
  /\ Len(applied["u1"]) = 2
  /\ applied["u1"][1].track_id = "t1"
  /\ applied["u1"][1].status = "COMPLETED"
  /\ applied["u1"][2].track_id = "t2"
  /\ applied["u1"][2].status = "SKIPPED"
  /\ \A w \in Workers : inflight[w].pc = "done" /\ inflight[w].base = 0
  /\ store["u1"].total_tracks_played = 1
  /\ store["u1"].total_completions = 0
  /\ store["u1"].total_skips = 1
  /\ Len(store["u1"].recent_history) = 1
  /\ store["u1"].recent_history[1].track_id = "t2"

\* ========================================================================
\* Properties of the user embedding
\* ========================================================================
\* build_user_embedding on a profile under the configuration of environ
ConfiguredEmbedding(profile, environ) ==
  LET tempo == get_tempo_bounds(environ.tempo_min, environ.tempo_max)
  IN build_user_embedding(profile, parse_genre_vocab(environ.vocab),
                          tempo[1], tempo[2])

\* C27: every profile update_user_profile has stored carries the embedding
\* of its own statistics: user_embedding is build_user_embedding of the
\* stored profile under the configured vocabulary and tempo bounds,
\* embedding_version is EMBEDDING_VERSION and embedding_updated_at is the
\* profile's updated_at.
C27_EmbeddingOfStoredProfile ==
  \A u \in DOMAIN store :
    /\ store[u].user_embedding = ConfiguredEmbedding(store[u], env)[1]
    /\ store[u].embedding_version = EMBEDDING_VERSION
    /\ store[u].embedding_updated_at = store[u].updated_at

\* under configured tempo bounds and vocabulary, a profile with audio
\* features and genres folded in was stored a second after it was created
C27_Witness ==
  /\ env.tempo_min # <<>>
  /\ call.outcome = "persisted"
  /\ call.user_id \in DOMAIN store
  /\ store[call.user_id].audio_profile.samples = 2
  /\ store[call.user_id].updated_at > store[call.user_id].created_at
  /\ store[call.user_id].user_embedding[5] > 0
  /\ Len(store[call.user_id].user_embedding) = 7
  /\ store[call.user_id].user_embedding[7] > 0

\* the genre entries of a stored embedding
GenreEntries(profile) ==
  SubSeq(profile.user_embedding, 6, Len(profile.user_embedding))

\* entry is count / total rounded to the nearest 1/Scale (0 when total is 0)
IsShare(entry, count, total) ==
  IF total = 0 THEN entry = 0
  ELSE /\ 2 * (entry * total - count * Scale) <= total
       /\ 2 * (count * Scale - entry * total) <= total

\* the embedding of the profile has the layout of build_user_embedding for
\* the vocabulary: the four averages and the normalized tempo, then the
\* share of each vocabulary genre, each in [0, 1]
HasLayout(profile, genre_vocab) ==
  LET embedding == profile.user_embedding
      total == SumValues(profile.genre_affinity, DOMAIN profile.genre_affinity)
  IN /\ Len(embedding) = 5 + Len(genre_vocab)
     /\ embedding[1] = profile.audio_profile.avg_danceability
     /\ embedding[2] = profile.audio_profile.avg_energy
     /\ embedding[3] = profile.audio_profile.avg_valence
     /\ embedding[4] = profile.audio_profile.avg_acousticness
     /\ embedding[5] \in 0..Scale
     /\ \A i \in DOMAIN genre_vocab :
          /\ IsShare(embedding[5 + i], GetCount(profile.genre_affinity, genre_vocab[i]),
                     total)
          /\ embedding[5 + i] \in 0..Scale

\* the entries sum to at most 1, up to the rounding of each entry
SumAtMostOne(entries) == 2 * SumSeq(entries) <= 2 * Scale + Len(entries)

\* C28 as stated: the embedding has the layout of build_user_embedding and
\* its genre entries sum to at most 1, whatever the vocabulary.
C28_GenreSharesSumToOne ==
  \A u \in DOMAIN store :
    /\ HasLayout(store[u], parse_genre_vocab(env.vocab))
    /\ SumAtMostOne(GenreEntries(store[u]))

\* C28: build_user_embedding returns 5 + |genre_vocab| entries: the four
\* averages and the normalized tempo in the fixed order, then for each
\* vocabulary genre, in vocabulary order, its count over the total genre
\* count (0 when the total is 0), each in [0, 1]; the genre entries sum to
\* at most 1 when no genre is listed twice in the vocabulary.
C28_GenreSharesOfDistinctVocab ==
  \A u \in DOMAIN store :
    /\ HasLayout(store[u], parse_genre_vocab(env.vocab))
    /\ NoDuplicates(parse_genre_vocab(env.vocab))
         => SumAtMostOne(GenreEntries(store[u]))

\* under a vocabulary of two genres, a profile that counts three genres
\* has a share for each genre of the vocabulary
C28_Witness ==
  /\ Len(parse_genre_vocab(env.vocab)) = 2
  /\ NoDuplicates(parse_genre_vocab(env.vocab))
  /\ "u1" \in DOMAIN store
  /\ SumValues(store["u1"].genre_affinity, DOMAIN store["u1"].genre_affinity) = 3
  /\ \A i \in 1..2 : GenreEntries(store["u1"])[i] > 0
  /\ GenreEntries(store["u1"])[1] < Scale

\* the tempo bounds the environment sets, the defaults where it sets none
SetTempoMin == IF env.tempo_min = <<>> THEN DEFAULT_TEMPO_MIN * Scale ELSE env.tempo_min[1]
SetTempoMax == IF env.tempo_max = <<>> THEN DEFAULT_TEMPO_MAX * Scale ELSE env.tempo_max[1]

\* the bounds are not usable: the maximum is not above the minimum
BoundsSwapped == SetTempoMax <= SetTempoMin

\* clamp((value - lo) / (hi - lo), 0, 1)
ClampedShare(value, lo, hi) ==
  LET share == FDiv(value - lo, hi - lo)
  IN IF share < 0 THEN 0 ELSE IF share > Scale THEN Scale ELSE share

BuiltUnderOtherConfig(profile, environ) ==
  LET meta == profile.embedding_meta
      tempo == get_tempo_bounds(environ.tempo_min, environ.tempo_max)
  IN \/ meta.embedding_version # EMBEDDING_VERSION
     \/ meta.genre_vocab # parse_genre_vocab(environ.vocab)
     \/ meta.tempo_min # tempo[1]
     \/ meta.tempo_max # tempo[2]

\* C30: a call that ranks the catalog for a profile whose embedding was
\* built under another version, vocabulary or tempo bounds than the
\* ranker's ranks with the vector rebuilt under the ranker's configuration.
C30_MismatchedVectorRebuilt ==
  (Recomputed /\ BuiltUnderOtherConfig(CallProfile, env))
    => queue_call.user_vector = ConfiguredEmbedding(CallProfile, env)[1]

\* ========================================================================
\* Properties of the hot-path handler and of the store failures
\* ========================================================================
\* C31: lambda_handler never raises: whatever the records of the batch and
\* the failures of the profile store and of the metadata provider, the
\* invocation does not end by an exception, so that no record of the batch
\* is left unlooked at.
C31_HandlerNeverRaises ==
  /\ response # "raised"
  /\ response \in {"idle", "ok"} => pending = 0

\* ========================================================================
\* Properties of the hot path and the recommender side by side
\* ========================================================================
\* the step is the put_item of an update_user_profile for user u
Persists(u) == applied'[u] # applied[u]

\* the next get_recommendation_queue(u, queue_size) on this table would
\* hand out the stored queue without ranking
WouldReuse(table, u, queue_size) ==
  queue_is_fresh(table[u], normalize_queue(table[u].recommendation_queue), queue_size)

\* C32: once update_user_profile has stored a profile, the queue stored
\* with it is not fresh for any queue size, whatever the clock shows (the
\* update may land in the second of the embedding the queue was ranked
\* with): the next get_recommendation_queue ranks anew.
C32_UpdateMakesQueueStale ==
  [][ \A u \in Users :
        (Persists(u) /\ store'[u].recommendation_queue # <<>>)
          => \A queue_size \in 1..MaxQueueSize : ~WouldReuse(store', u, queue_size) ]_vars

\* the track ids of a recent_history
HistoryIds(profile) ==
  {profile.recent_history[i].track_id : i \in DOMAIN profile.recent_history}

\* C33: however the steps of update_user_profile and get_recommendation_queue
\* interleave, the queue a call returns holds no track of the
\* recent_history of the profile that call read, the stored queue handed
\* out as fresh included.
C33_NoPlayedTrackReturned ==
  FoundProfile => Range(queue_call.result) \cap HistoryIds(CallProfile) = {}

\* C34: the put_item of update_user_profile leaves the stored queue as it
\* is but for the played track, and its tags as they are: a queue the
\* recommender has stored since the update read the profile is not
\* replaced by the queue and tags that were read.
C34_UpdateKeepsStoredQueue ==
  [][ \A u \in Users :
        (Persists(u) /\ u \in DOMAIN store)
          => /\ store'[u].recommendation_queue
                  = remove_track_from_queue(store[u].recommendation_queue,
                                            inflight["w1"].track_id)
             /\ store'[u].queue_embedding_version = store[u].queue_embedding_version
             /\ store'[u].queue_embedding_ts = store[u].queue_embedding_ts
             /\ store'[u].queue_updated_at = store[u].queue_updated_at ]_vars

\* ========================================================================
\* Further properties of the catalog cache, the tracker and the hot path
\* ========================================================================
\* C35: load_item_index hands out no payload loaded TTL seconds ago or
\* earlier: once the TTL has expired, a call returns a payload it has just
\* fetched, or nothing when the fetch fails, although the cache still holds
\* the older payload.
C35_NoExpiredPayload ==
  [][ LoadsIndex
      => /\ queue_call'.index # <<>>
              => /\ queue_call'.index = item_index_cache'.payload
                 /\ (clock - item_index_cache'.loaded_at) * Scale
                      < IndexTtl(env) * TicksPerSec
         /\ (~WithinTtl /\ queue_call'.index # <<>>)
              => /\ queue_call'.fetched
                 /\ item_index_cache'.loaded_at = clock ]_vars

\* under a TTL of one second, a second after the load, the source holds
\* something that is no catalog: nothing is returned, the payload is kept
C35_Witness ==
  /\ env.index_ttl = <<Scale>>
  /\ queue_call.loaded
  /\ queue_call.fetched
  /\ queue_call.source[1].status = "ok"
  /\ queue_call.index = <<>>
  /\ item_index_cache.payload # <<>>
  /\ clock = item_index_cache.loaded_at + TicksPerSec

\* the tracker has adopted a track: lines 54-56 have run
Adopted == start_time # 0

\* C36: a call that replaces an adopted track by another one emits the one
\* event that closes the replaced track out, whatever its id (null and
\* empty ids included): no replaced track goes without its event.
C36_ReplacedTrackClosedOut ==
  [][ (Adopted /\ current_track_id' # current_track_id)
      => /\ event' # <<>>
         /\ event'[1].track_id = current_track_id
         /\ event'[1].track_name = current_track_name ]_vars


\* C37: the duration_listened of an emitted event is the whole seconds between
\* the call that adopted the replaced track and the call that replaces it, and
\* its status is classified on that same elapsed time; the start of the
\* measurement is the time of the adopting call and no call that keeps the
\* tracked id (no track, or the same track) moves it.
C37_DurationSinceAdoption ==
  [][ /\ event' # <<>>
         => /\ event'[1].duration_listened = (clock' - start_time) \div TicksPerSec
            /\ event'[1].status = IF clock' - start_time < min_listen_time * TicksPerSec
                                  THEN "SKIPPED" ELSE "COMPLETED"
      /\ current_track_id' = current_track_id => start_time' = start_time
      /\ current_track_id' # current_track_id => start_time' = clock' ]_vars

\* an event whose measurement spans more than one poll interval: calls that
\* kept the tracked id came between the adoption and the replacement
C37_Witness ==
  /\ event # <<>>
  /\ event[1].duration_listened > min_listen_time
  /\ event[1].status = "COMPLETED"
  /\ start_time = clock


\* the profile update_user_profile starts from for this user: the stored
\* one, or the counters and history of a new profile
StoredOrNew(u) ==
  IF u \in DOMAIN store
  THEN store[u]
  ELSE [total_tracks_played |-> 0, total_completions |-> 0, total_skips |-> 0,
        recent_history |-> <<>>]

\* C38: every persisted update for a TrackEvent (COMPLETED or SKIPPED) adds
\* one to total_tracks_played and to the counter of its status and puts one
\* entry at the head of recent_history (the oldest falling off at
\* HistoryLimit), whether or not the same event was applied before: k
\* deliveries of one event count k times.
C38_EveryDeliveryCounts ==
  [][ ( /\ processed' = processed + 1
        /\ call'.outcome = "persisted"
        /\ call'.status \in {"COMPLETED", "SKIPPED"} )
      => LET u == call'.user_id
             before == StoredOrNew(u)
             after == store'[u]
             n == Len(before.recent_history)
         IN /\ after.total_tracks_played = before.total_tracks_played + 1
            /\ after.total_completions = before.total_completions
                  + (IF call'.status = "COMPLETED" THEN 1 ELSE 0)
            /\ after.total_skips = before.total_skips
                  + (IF call'.status = "SKIPPED" THEN 1 ELSE 0)
            /\ Len(after.recent_history) = (IF n < HistoryLimit THEN n + 1 ELSE HistoryLimit)
            /\ after.recent_history[1] =
                  [track_id |-> call'.track_id, status |-> call'.status, ts |-> Now]
            /\ \A i \in 2..Len(after.recent_history) :
                  after.recent_history[i] = before.recent_history[i - 1] ]_vars

\* the same COMPLETED event was delivered twice to a user with a full
\* history: both deliveries are counted and both are in the history
C38_Witness ==
  /\ "u1" \in DOMAIN store
  /\ Len(applied["u1"]) = HistoryLimit + 2
  /\ store["u1"].total_tracks_played = HistoryLimit + 2
  /\ store["u1"].total_completions = 2
  /\ Len(store["u1"].recent_history) = HistoryLimit
  /\ store["u1"].recent_history[1] = store["u1"].recent_history[2]
  /\ store["u1"].recent_history[1].status = "COMPLETED"


\* C39: an update_user_profile call whose get_item fails writes nothing
\* (the store is as before and the event is not applied), and a call whose
\* put_item fails with a store error leaves the store as before and returns:
\* the invocation does not fail.
C39_StoreFailureLeavesProfile ==
  [][ /\ (processed' = processed + 1 /\ call'.get = "error")
         => /\ store' = store
            /\ applied' = applied
            /\ call'.put = "none"
      /\ (processed' = processed + 1 /\ call'.put = "error")
         => /\ store' = store
            /\ applied' = applied
            /\ response' # "raised" ]_vars

\* after one event was persisted, the write of a second one failed: the
\* invocation ended normally and the profile holds the first event only
C39_Witness ==
  /\ call.put = "error"
  /\ call.user_id = "u1"
  /\ response = "ok"
  /\ "u1" \in DOMAIN store
  /\ store["u1"].total_tracks_played = 1
  /\ Len(applied["u1"]) = 1
  /\ processed = 2

====
